---------------------------- MODULE Spec2Model ----------------------------
(***************************************************************************)
(* Model of the ESP32 LoRa gateway bridge pipeline:                        *)
(*   - device registry with per-device dedup ring  (device_registry.cpp)   *)
(*   - LoRa receive task                           (lora_receiver.cpp)     *)
(*   - MQTT publish task and command ingress       (mqtt_bridge.cpp)       *)
(*   - command queue with expiry and retry         (command_sender.cpp)    *)
(*   - radio and its mutex                         (command_sender.cpp)    *)
(*                                                                         *)
(* The capacities of the program (10 sensors, 50 ring slots, 20 queued     *)
(* packets, 10 queued commands) are scaled down to small values so that    *)
(* the full/overflow cases are reached by exhaustive exploration; the      *)
(* scaled names keep the names of the macros they stand for.               *)
(***************************************************************************)
EXTENDS Integers, Sequences, FiniteSets, TLC

(* ----------------------------- bounds ---------------------------------- *)
\* registry capacity (device_config.h: MAX_SENSORS 10), scaled
MAX_SENSORS == 2
\* dedup ring size (device_config.h: DEDUP_BUFFER_SIZE 50), scaled
DEDUP_BUFFER_SIZE == 2
\* depth of the decoded-record queue (xQueueCreate(20, ...)), scaled
RX_QUEUE_LEN == 2
\* number of frames the radio delivers in one run
MaxFrames == 3
\* command queue capacity (command_sender.h: MAX_QUEUED_COMMANDS 10), scaled
MAX_QUEUED_COMMANDS == 2
\* number of clock ticks in one run
MaxTicks == 2
\* capacity of the write queue (database_manager.h: MAX_QUEUE_SIZE 1000), scaled
MAX_QUEUE_SIZE == 3
\* writes posted by one processWriteQueue (part_012: processed < 10), scaled
MaxProcessed == 2
\* number of documents handed to the database manager in one run
MaxWrites == 5
\* number of POSTs that fail in one run
MaxFailedPosts == 2
\* queued commands of one device met by one retry loop (at most
\* command_sender.h: MAX_QUEUED_COMMANDS 10)
MaxRetries == 6

(* --------------------------- program constants ------------------------- *)
EMPTY_SEQ == 65535
COMMAND_EXPIRATION_MS == 300000
\* the clock counts units of 4 ms, so that the wrap of the 32-bit millis()
\* (2^32 ms = 2^30 units) is a number the checker can compute with
ClockUnitMs == 4
MILLIS_WRAP == 1073741824
COMMAND_EXPIRATION == COMMAND_EXPIRATION_MS \div ClockUnitMs

NoTask == "none"
NoPkt == [kind |-> "none"]

\* one more device than the registry can hold
DeviceIds == 1 .. (MAX_SENSORS + 1)
\* sequence numbers around the wrap: 0xFFFF, 0x0000, 0x0001
SeqNums == {EMPTY_SEQ, 0, 1}
RssiValues == {-80}
SnrValues == {7}
\* time between two frames on the air: 1000 ms
FrameGap == 1000 \div ClockUnitMs

\* message kinds of a frame with a valid header; EVENT carries its eventType
MsgKinds == {"READINGS", "STATUS", "EVENT_STARTUP", "EVENT_OTHER", "COMMAND"}
MsgTypeOf(kind) == IF kind \in {"EVENT_STARTUP", "EVENT_OTHER"} THEN "EVENT" ELSE kind

\* main.cpp: WDT_TIMEOUT, seconds
WDT_TIMEOUT == 30

(* ----------------------------- frame header ---------------------------- *)
\* lora_protocol.h is not among the sources: the magic bytes, the version and
\* the message type bytes stand for the values of its macros
LORA_MAGIC_BYTE_1 == 76
LORA_MAGIC_BYTE_2 == 82
LORA_PROTOCOL_VERSION == 1
MsgTypeByte(kind) ==
    CASE MsgTypeOf(kind) = "READINGS" -> 1
      [] MsgTypeOf(kind) = "STATUS" -> 2
      [] MsgTypeOf(kind) = "EVENT" -> 3
      [] MsgTypeOf(kind) = "COMMAND" -> 4
      [] OTHER -> 5
\* payload sizes of the sensors' frames, standing for sizeof(ReadingsPayload),
\* sizeof(StatusPayload) and an event with a short message
PayloadLenOf(kind) ==
    CASE kind = "READINGS" -> 20
      [] kind = "STATUS" -> 60
      [] OTHER -> 4

\* sizeof(LoRaPacketHeader): magic[2], version, msgType, deviceId (8),
\* sequenceNum (2), payloadLen, checksum, packed
HeaderSize == 2 + 1 + 1 + 8 + 2 + 1 + 1

\* a ^ b on uint8_t
RECURSIVE Xor(_, _)
Xor(a, b) ==
    IF a = 0 THEN b
    ELSE IF b = 0 THEN a
    ELSE (((a % 2) + (b % 2)) % 2) + 2 * Xor(a \div 2, b \div 2)

\* the n bytes of x in memory, low byte first; the values of the model are
\* below 2^31, so the bytes past the fourth are 0
LittleEndian(x, n) ==
    [k \in 1..n |-> IF k > 4 THEN 0 ELSE (x \div 256^(k - 1)) % 256]

\* (uint8_t*)header, the bytes before the checksum byte
HeaderBytes(h) ==
    <<h.magic[1], h.magic[2], h.version, h.msgType>>
    \o LittleEndian(h.deviceId, 8) \o LittleEndian(h.sequenceNum, 2)
    \o <<h.payloadLen>>

\* checksum ^= headerBytes[i] for i from 0 up to, not including, last
XorBytes(bytes, last) ==
    LET F[k \in 0..last] == IF k = 0 THEN 0 ELSE Xor(F[k - 1], bytes[k])
    IN F[last]

\* calculateHeaderChecksum: XOR of every header byte before the checksum
calculateHeaderChecksum(h) == XorBytes(HeaderBytes(h), HeaderSize - 1)

\* validateHeader: magic, version and checksum
validateHeader(h) ==
    /\ h.magic = <<LORA_MAGIC_BYTE_1, LORA_MAGIC_BYTE_2>>
    /\ h.version = LORA_PROTOCOL_VERSION
    /\ h.checksum = calculateHeaderChecksum(h)

\* a length test that lets every frame pass
NeverTooShort(packetLen) == TRUE

\* loraRxTask: the negation of packetLen < sizeof(LoRaPacketHeader)
PacketLongEnough(packetLen) == packetLen >= HeaderSize

\* the header a sensor puts in front of its payload
SensorHeader(kind, d, s) ==
    LET h == [magic |-> <<LORA_MAGIC_BYTE_1, LORA_MAGIC_BYTE_2>>,
              version |-> LORA_PROTOCOL_VERSION, msgType |-> MsgTypeByte(kind),
              deviceId |-> d, sequenceNum |-> s,
              payloadLen |-> PayloadLenOf(kind), checksum |-> 0]
    IN [h EXCEPT !.checksum = calculateHeaderChecksum(h)]

\* readData and getPacketLength: the header in rxBuffer, the number of bytes
\* received, what the payload says, and the outcome of the two tests of
\* loraRxTask on them
Received(h, packetLen, k, n) ==
    [lenOk |-> PacketLongEnough(packetLen), hdrOk |-> validateHeader(h),
     deviceId |-> h.deviceId, sequenceNum |-> h.sequenceNum,
     kind |-> k, name |-> n, header |-> h, packetLen |-> packetLen]

\* a frame received whole
MkFrame(d, s, k, n) ==
    Received(SensorHeader(k, d, s), HeaderSize + PayloadLenOf(k), k, n)
\* the frames the sensors send: READINGS from every device, and from device 1
\* also STARTUP events, a STATUS that reports a name, and a COMMAND frame
ValidFrames ==
    {MkFrame(d, s, "READINGS", "") : d \in DeviceIds, s \in SeqNums}
    \cup {MkFrame(1, s, "EVENT_STARTUP", "") : s \in SeqNums}
    \cup {MkFrame(1, 1, "STATUS", "kitchen"), MkFrame(1, 1, "COMMAND", "")}
\* a frame cut off before its checksum byte, whose fifteen bytes XOR to the 0
\* that rxBuffer holds in place of the missing byte
ShortFrame ==
    LET h == [SensorHeader("READINGS", 1, 0) EXCEPT !.payloadLen = 0, !.checksum = 0]
    IN Received([h EXCEPT !.payloadLen = calculateHeaderChecksum(h)],
                HeaderSize - 1, "READINGS", "")
\* frames that fail one test each: too short, wrong magic, wrong version,
\* wrong checksum
BadFrames ==
    LET h == SensorHeader("READINGS", 1, 0)
        Sealed(g) == [g EXCEPT !.checksum = calculateHeaderChecksum(g)]
        len == HeaderSize + h.payloadLen
    IN { ShortFrame,
         Received(Sealed([h EXCEPT !.magic = <<LORA_MAGIC_BYTE_2, LORA_MAGIC_BYTE_1>>]),
                  len, "READINGS", ""),
         Received(Sealed([h EXCEPT !.version = LORA_PROTOCOL_VERSION + 1]),
                  len, "READINGS", ""),
         Received([h EXCEPT !.checksum = (h.checksum + 1) % 256], len, "READINGS", "") }
\* a READINGS frame with a sound header of which the last payload byte was
\* not received
TruncatedFrames ==
    {Received(SensorHeader("READINGS", 1, 1),
              HeaderSize + PayloadLenOf("READINGS") - 1, "READINGS", "")}
Frames == ValidFrames \cup BadFrames \cup TruncatedFrames

VARIABLES
    \* device registry
    devices,            \* devices[1..deviceCount], the DeviceInfo array
    registryMutex,      \* holder of registryMutex
    registryFile,       \* contents of /sensor_registry.json
    \* LoRa RX task
    rxPc, rxPkt, rxIdx, rxDoc,
    rxLen,              \* packetLen of the frame loraRxTask is handling
    packetsReceived, packetsDropped, duplicatesFiltered,
    rxPacketQueue,
    \* MQTT task
    mqPc, mqPkt, mqDoc, mqRet, mqI,
    \* web handler task and serial console (loop task)
    webPc, serPc,
    \* command queue
    commandQueue,       \* commandQueue[1..queueSize]
    qc,                 \* per task: its call of queueCommand
    snd,                \* per task: its call of sendCommand
    \* radio
    radioMutex,         \* holder of the radio mutex
    radioState,         \* "RX", "STANDBY" or "TX"
    transmitting,       \* the tasks inside radio->transmit()
    \* clock (millis()) and its value at boot
    now, boot,
    \* the command codec taken alone: a document, its command, its frame
    codec,
    \* sendAck: the AckPayload in txBuffer, from its transmit until the receive
    \* task is done with the frame
    txAck,
    \* DatabaseManager dbManager: status, writeQueue, failedWrites; writes counts
    \* the documents handed to it and dropped is the document queueWrite
    \* discarded last (0: none), both kept for the properties
    dbManager,
    \* the task watchdog, in whole seconds: mq and rx are the time since
    \* mqttTask and loraRxTask last called esp_task_wdt_reset (their start, if
    \* never), pc is where mqttTask is in its loop, left the entries its retry
    \* loop has still to visit, wait the time its blocking call may still take
    wdt,
    \* the last call of getDeviceName or getDeviceLocation taken alone: the
    \* function, its argument, what it returned
    lookup,
    \* history variables
    recent,             \* per device: sequence numbers of its last accepted frames
    lastDecision,       \* the last answer of isDuplicate in the RX task
    committed,          \* devices when the registry mutex was last free
    lastObs,            \* per record: the observe call that last completed on it
    snapOk,             \* the last snapshot document matched a committed registry
    snapDuring,         \* "observing": built during the running updateDeviceInfo
    ringTag,            \* per device and slot: written before/after a STARTUP
    lastClear,          \* what the last clearDuplicationBuffer erased
    lastClean,          \* the running retryCommandsForSensor: what its
                        \* cleanExpiredCommands removed and kept, the queue its
                        \* loop started on, the entries it called sendCommand for
    lastPublish         \* what mqttClient.publish returned for the packet the
                        \* MQTT task took last: "none" until it is published

regVars == <<devices, registryMutex, registryFile>>
rxVars == <<rxPc, rxPkt, rxIdx, rxDoc, rxLen, packetsReceived, packetsDropped,
            duplicatesFiltered, rxPacketQueue>>
mqVars == <<mqPc, mqPkt, mqDoc, mqRet, mqI>>
cmdVars == <<commandQueue, qc, snd, webPc, serPc>>
radioVars == <<radioMutex, radioState, transmitting>>
histVars == <<recent, lastDecision, committed, lastObs, snapOk, snapDuring,
              ringTag, lastClear>>
NoClean == [removed |-> 0, kept |-> 0, start |-> <<>>, tried |-> <<>>]
vars == <<regVars, rxVars, mqVars, cmdVars, radioVars, now, boot, codec, txAck, dbManager, wdt, lookup, histVars,
          lastClean, lastPublish>>

(* ------------------------- device registry ----------------------------- *)
Slots == 0 .. (DEDUP_BUFFER_SIZE - 1)

\* "sensor_" + String((uint32_t)(deviceId & 0xFFFFFFFF), HEX); the device
\* ids of the model are below 2^32
DefaultName(deviceId) == <<"sensor_", deviceId>>

\* index of the record of deviceId, 0 when there is none (the search loops)
FindDevice(devs, deviceId) ==
    IF \E i \in 1..Len(devs) : devs[i].deviceId = deviceId
    THEN CHOOSE i \in 1..Len(devs) :
            /\ devs[i].deviceId = deviceId
            /\ \A k \in 1..(i-1) : devs[k].deviceId # deviceId
    ELSE 0

\* memset(sequenceBuffer, 0, sizeof(sequenceBuffer))
ZeroedBuffer == [j \in Slots |-> 0]

\* the record addDevice initialises
NewDevice(deviceId, name, location, t) ==
    [deviceId |-> deviceId, deviceName |-> name, location |-> location,
     lastSeen |-> t, lastRssi |-> 0, lastSnr |-> 0, packetCount |-> 0,
     lastSequence |-> 0, bufferIndex |-> 0, sequenceBuffer |-> ZeroedBuffer]

\* an addDevice without the capacity test
addDeviceUnbounded(devs, deviceId, name, location, t) ==
    Append(devs, NewDevice(deviceId, name, location, t))

addDevice(devs, deviceId, name, location, t) ==
    IF Len(devs) >= MAX_SENSORS
    THEN devs
    ELSE Append(devs, NewDevice(deviceId, name, location, t))

isDuplicate(devs, deviceId, seqNum) ==
    LET i == FindDevice(devs, deviceId) IN
    /\ i # 0
    /\ \E j \in Slots : devs[i].sequenceBuffer[j] = seqNum

\* the ring cleared the way addDevice clears it, with zeroes
clearDuplicationBufferZero(devs, deviceId) ==
    LET i == FindDevice(devs, deviceId) IN
    IF i = 0 THEN devs
    ELSE [devs EXCEPT ![i].sequenceBuffer = ZeroedBuffer, ![i].bufferIndex = 0]

clearDuplicationBuffer(devs, deviceId) ==
    LET i == FindDevice(devs, deviceId) IN
    IF i = 0 THEN devs
    ELSE [devs EXCEPT ![i].sequenceBuffer = [j \in Slots |-> EMPTY_SEQ],
                      ![i].bufferIndex = 0]

\* updateDeviceInfo, first half of "Update info": lastSeen, lastRssi, lastSnr
UpdateMetrics(devs, i, t, rssi, snr) ==
    [devs EXCEPT ![i].lastSeen = t, ![i].lastRssi = rssi, ![i].lastSnr = snr]

\* updateDeviceInfo, second half: packetCount++, lastSequence, dedup ring
UpdateSequence(devs, i, seqNum) ==
    [devs EXCEPT ![i].packetCount = @ + 1,
                 ![i].lastSequence = seqNum,
                 ![i].sequenceBuffer[devs[i].bufferIndex] = seqNum,
                 ![i].bufferIndex = (@ + 1) % DEDUP_BUFFER_SIZE]

\* the document saveRegistry builds under the lock
SaveDoc(devs) ==
    [i \in 1..Len(devs) |->
        [id |-> devs[i].deviceId, name |-> devs[i].deviceName,
         location |-> devs[i].location, lastSeen |-> devs[i].lastSeen,
         packetCount |-> devs[i].packetCount]]

\* loadRegistry: the records of the stored document, at most MAX_SENSORS of
\* them, with RSSI, SNR, last sequence, write index and ring zeroed
loadRegistry(doc) ==
    [i \in 1..(IF Len(doc) > MAX_SENSORS THEN MAX_SENSORS ELSE Len(doc)) |->
        [deviceId |-> doc[i].id, deviceName |-> doc[i].name,
         location |-> doc[i].location, lastSeen |-> doc[i].lastSeen,
         lastRssi |-> 0, lastSnr |-> 0, packetCount |-> doc[i].packetCount,
         lastSequence |-> 0, bufferIndex |-> 0, sequenceBuffer |-> ZeroedBuffer]]

\* the document getDeviceRegistrySnapshot builds under the lock
Snapshot(devs) ==
    [i \in 1..Len(devs) |->
        [id |-> devs[i].deviceId, name |-> devs[i].deviceName,
         location |-> devs[i].location, lastSeen |-> devs[i].lastSeen,
         lastRssi |-> devs[i].lastRssi, lastSnr |-> devs[i].lastSnr,
         packetCount |-> devs[i].packetCount,
         lastSequence |-> devs[i].lastSequence]]

\* a registry without the mutex: every caller enters at once
LOCK_REGISTRY_NoMutex(holder) == TRUE

\* LOCK_REGISTRY(): xSemaphoreTake(registryMutex, portMAX_DELAY) returns
\* once no other task holds the mutex
LOCK_REGISTRY(holder) == holder = NoTask


(* ---------------------------- command queue ---------------------------- *)
\* tasks that call queueCommand: the MQTT callback and the /api/command handler
QueueCallers == {"mqtt", "web"}
\* tasks that call sendCommand: those, and the serial console in loop()
Senders == {"mqtt", "web", "serial"}
NoCall == [pc |-> "none"]

CMD_SET_INTERVAL == 7
CMD_RESTART == 4
\* targets and commands the callers hand to queueCommand
CmdTargets == {1, 2}
\* snprintf(paramStr, "%lu", seconds): the ASCII bytes of "90" and "120"
IntervalParams == {<<57, 48>>, <<49, 50, 48>>}
MkCommand(d, type, p) ==
    [sensorId |-> d, cmdType |-> type, params |-> p, paramLen |-> Len(p)]
\* set_interval for sensor 1 with either parameter, restart for sensor 2
CmdInputs ==
    {MkCommand(1, CMD_SET_INTERVAL, p) : p \in IntervalParams}
    \cup {MkCommand(2, CMD_RESTART, <<>>)}

(* --------------------------- command ingress --------------------------- *)
CMD_CALIBRATE == 1
CMD_SET_BASELINE == 2
CMD_CLEAR_BASELINE == 3
CMD_STATUS == 5
CMD_SET_SLEEP == 6

\* a parsed command document: device_id (already the number strtoull gives),
\* action, and "value" when the document has one
Json(d, action, hasValue, v) ==
    [device_id |-> d, action |-> action, hasValue |-> hasValue, value |-> v]

\* snprintf(.., "%lu" / "%u", n) with strlen: the ASCII digits of n, no NUL
RECURSIVE Decimal(_)
Decimal(n) ==
    IF n < 10 THEN <<48 + n>> ELSE Decimal(n \div 10) \o <<48 + (n % 10)>>

\* mqttCallback: the action is mapped to a queueCommand call; unknown actions
\* return without one
mqttCommand(j) ==
    LET orDefault(d) == IF j.hasValue THEN j.value ELSE d
        queued(type, p) == [ok |-> TRUE, cmd |-> MkCommand(j.device_id, type, p)]
    IN  CASE j.action = "set_interval" ->
                queued(CMD_SET_INTERVAL, Decimal(orDefault(30)))
          [] j.action = "set_sleep" ->
                queued(CMD_SET_SLEEP, Decimal(orDefault(900)))
          [] j.action = "restart" -> queued(CMD_RESTART, <<>>)
          [] j.action = "status" -> queued(CMD_STATUS, <<>>)
          [] j.action = "calibrate" -> queued(CMD_CALIBRATE, <<>>)
          [] j.action = "set_baseline" ->
                \* snprintf(.., "%.2f", baselineHpa), default 1013.25
                queued(CMD_SET_BASELINE,
                       IF j.hasValue THEN Decimal(j.value) \o <<46, 48, 48>>
                       ELSE Decimal(1013) \o <<46>> \o Decimal(25))
          [] j.action = "clear_baseline" -> queued(CMD_CLEAR_BASELINE, <<>>)
          [] OTHER -> [ok |-> FALSE]

\* /api/command: doc["value"].as<uint16_t>() is 0 when the value is missing
\* or does not fit; 0 becomes 90; the ranges are tested before queueCommand
webCommand(j) ==
    LET asU16 == IF j.hasValue /\ j.value < 65536 THEN j.value ELSE 0
        value == IF asU16 = 0 THEN 90 ELSE asU16
        queued(type, p) == [ok |-> TRUE, cmd |-> MkCommand(j.device_id, type, p)]
    IN  CASE j.action = "set_interval" ->
                IF value < 5 \/ value > 3600 THEN [ok |-> FALSE]
                ELSE queued(CMD_SET_INTERVAL, Decimal(value))
          [] j.action = "set_sleep" ->
                IF value > 3600 THEN [ok |-> FALSE]
                ELSE queued(CMD_SET_SLEEP, Decimal(value))
          [] j.action = "calibrate" -> queued(CMD_CALIBRATE, <<>>)
          [] j.action = "clear_baseline" -> queued(CMD_CLEAR_BASELINE, <<>>)
          [] j.action = "restart" -> queued(CMD_RESTART, <<>>)
          [] j.action = "status" -> queued(CMD_STATUS, <<>>)
          [] OTHER -> [ok |-> FALSE]

(* ---------------------------- command frames --------------------------- *)
\* the size of ReceivedPacket.payload
LORA_MAX_PAYLOAD_SIZE == 238

\* an initCommandHeader whose loop stops one byte early
initCommandHeaderShortLoop(deviceId, seqNum, payloadLen) ==
    LET h == [magic |-> <<LORA_MAGIC_BYTE_1, LORA_MAGIC_BYTE_2>>,
              version |-> LORA_PROTOCOL_VERSION, msgType |-> MsgTypeByte("COMMAND"),
              deviceId |-> deviceId, sequenceNum |-> seqNum % 65536,
              payloadLen |-> payloadLen % 256, checksum |-> 0]
    IN  [h EXCEPT !.checksum = XorBytes(HeaderBytes(h), HeaderSize - 2)]

\* initCommandHeader: the fields, then the XOR of the bytes before the last
initCommandHeader(deviceId, seqNum, payloadLen) ==
    LET h == [magic |-> <<LORA_MAGIC_BYTE_1, LORA_MAGIC_BYTE_2>>,
              version |-> LORA_PROTOCOL_VERSION, msgType |-> MsgTypeByte("COMMAND"),
              deviceId |-> deviceId, sequenceNum |-> seqNum % 65536,
              payloadLen |-> payloadLen % 256, checksum |-> 0]
    IN  [h EXCEPT !.checksum = XorBytes(HeaderBytes(h), HeaderSize - 1)]

\* a sendCommand that sends the whole CommandPayload struct
CommandPacketWholeStruct(c, seqNum) ==
    LET header == initCommandHeader(c.sensorId, seqNum, 2 + 238)
    IN  HeaderBytes(header) \o <<header.checksum>>
        \o <<c.cmdType, c.paramLen>> \o c.params
        \o [i \in 1..(238 - c.paramLen) |-> 0]

\* sendCommand: the bytes of packet[], header first, then cmdType, paramLen
\* and the paramLen parameter bytes
CommandPacket(c, seqNum) ==
    LET actualPayloadLen == (2 + c.paramLen) % 256
        header == initCommandHeader(c.sensorId, seqNum, actualPayloadLen)
    IN  HeaderBytes(header) \o <<header.checksum>>
        \o <<c.cmdType, c.paramLen>> \o c.params

\* (LoRaPacketHeader*)rxBuffer: the header fields read from the first bytes
ParseHeader(bytes) ==
    LET Value(from, n) ==
            LET F[k \in 0..n] ==
                    IF k = 0 THEN 0 ELSE bytes[from + n - k] + 256 * F[k - 1]
            IN  F[n]
    IN  [magic |-> <<bytes[1], bytes[2]>>, version |-> bytes[3],
         msgType |-> bytes[4],
         \* the device ids of the model leave the upper four bytes 0
         deviceId |-> Value(5, 4), sequenceNum |-> Value(13, 2),
         payloadLen |-> bytes[15], checksum |-> bytes[16]]

\* what the codec is given: command documents of every action, with values
\* at the limits of the table, one outside, one missing, one action that is
\* not known, and sendCommand calls with parameters up to and past the most
\* it takes; each for several targets and values of commandSeqNum
CodecInputs ==
    LET docs(d) ==
            {Json(d, "set_interval", TRUE, v) : v \in {4, 5, 60, 3600}}
            \cup {Json(d, "set_sleep", TRUE, v) : v \in {0, 900, 3600}}
            \cup {Json(d, "set_baseline", TRUE, v) : v \in {900, 1100}}
            \cup {Json(d, a, FALSE, 0) :
                    a \in {"restart", "status", "calibrate", "clear_baseline",
                           "set_interval", "reboot"}}
        calls(d) ==
            {MkCommand(d, CMD_SET_INTERVAL, [i \in 1..n |-> 48 + (i % 10)]) :
                n \in {235, 236, 237, 238, 239}}
        targets == {1, 258, 16909060}
        seqNums == {0, 255, 256, 65535, 65536}
    IN  {[stage |-> "json", json |-> j, seq |-> s] :
            j \in UNION {docs(d) : d \in targets}, s \in seqNums}
        \cup {[stage |-> "command", cmd |-> c, seq |-> s] :
                c \in UNION {calls(d) : d \in targets}, s \in seqNums}

\* the clock tick of the model
TickLen == COMMAND_EXPIRATION

\* the comparison with >= in place of >
ExpiredAtLimit(t, c) == ((t - c.queuedAt) % MILLIS_WRAP) >= COMMAND_EXPIRATION

\* now - commandQueue[i].queuedAt > COMMAND_EXPIRATION_MS, in uint32_t
Expired(t, c) == ((t - c.queuedAt) % MILLIS_WRAP) > COMMAND_EXPIRATION

\* remove entry i by shifting the remaining items down
RemoveAt(queue, i) ==
    [k \in 1..(Len(queue) - 1) |-> IF k < i THEN queue[k] ELSE queue[k + 1]]

\* cleanExpiredCommands: for (i = queueSize - 1; i >= 0; i--)
RECURSIVE CleanFrom(_, _, _)
CleanFrom(queue, t, i) ==
    IF i < 1 THEN queue
    ELSE IF Expired(t, queue[i])
         THEN CleanFrom(RemoveAt(queue, i), t, i - 1)
         ELSE CleanFrom(queue, t, i - 1)

\* a cleanExpiredCommands that removes nothing
cleanExpiredCommandsKeepAll(queue, t) == queue

cleanExpiredCommands(queue, t) == CleanFrom(queue, t, Len(queue))

\* queueCommand: index of the entry with the same sensor and command, or 0
FindQueued(queue, sensorId, cmdType) ==
    IF \E i \in 1..Len(queue) :
          queue[i].sensorId = sensorId /\ queue[i].cmdType = cmdType
    THEN CHOOSE i \in 1..Len(queue) :
            /\ queue[i].sensorId = sensorId /\ queue[i].cmdType = cmdType
            /\ \A k \in 1..(i-1) :
                  ~(queue[k].sensorId = sensorId /\ queue[k].cmdType = cmdType)
    ELSE 0

\* queueCommand: the queue-full test that heads the function
QueueFull(queue) == Len(queue) >= MAX_QUEUED_COMMANDS

\* queueCommand: "Command already queued, updating timestamp"
RequeueEntry(e, c, t) ==
    [e EXCEPT !.queuedAt = t, !.retryCount = 0,
              !.params = IF c.paramLen > 0 THEN c.params ELSE @,
              !.paramLen = IF c.paramLen > 0 THEN c.paramLen ELSE @]

\* queueCommand: "Add new command to queue"
NewEntry(c, t) ==
    [sensorId |-> c.sensorId, cmdType |-> c.cmdType, params |-> c.params,
     paramLen |-> c.paramLen, queuedAt |-> t, retryCount |-> 0]

\* what a slot behind the array may read back as
TornEntry ==
    [sensorId |-> 0, cmdType |-> 0, params |-> <<>>, paramLen |-> 0,
     queuedAt |-> 0, retryCount |-> 0]

\* getQueuedCommandsJson: type and retries of the entries of one sensor
QueuedFor(queue, sensorId) ==
    LET F[k \in 0..Len(queue)] ==
          IF k = 0 THEN <<>>
          ELSE IF queue[k].sensorId = sensorId
               THEN Append(F[k-1], [type |-> queue[k].cmdType,
                                    retries |-> queue[k].retryCount])
               ELSE F[k-1]
    IN F[Len(queue)]

\* outcomes of the file write in saveRegistry
SaveOutcomes == {TRUE}

\* /sensor_registry.json at boot: absent, written by an earlier run that had
\* filled the registry, or a file that lists one device more than fit
StoredFiles ==
    { <<>> } \cup
    { [i \in 1..n |->
          [id |-> i, name |-> DefaultName(i), location |-> "Unknown",
           lastSeen |-> 0, packetCount |-> 1]] : n \in {MAX_SENSORS, MAX_SENSORS + 1} }

(* --------------------------- history helpers --------------------------- *)
NoObs == [t |-> -1]
Range(q) == {q[k] : k \in 1..Len(q)}
\* the window of the last DEDUP_BUFFER_SIZE accepted sequence numbers
AppendRecent(r, seqNum) ==
    LET a == Append(r, seqNum)
    IN IF Len(a) > DEDUP_BUFFER_SIZE THEN Tail(a) ELSE a
Records == 1 .. MAX_SENSORS
RxObserving == {"addDevice", "saveBuild", "saveWrite", "relock", "updMetrics", "updRing"}

\* no ACK in txBuffer
NoAck == [sent |-> FALSE]
\* sendAck: ack.ackSequenceNum = seqNum, ack.success = 1
AckPayload(seqNum) == [sent |-> TRUE, ackSequenceNum |-> seqNum, success |-> 1]

(* ------------------------------- Init ---------------------------------- *)
InitBase ==
    /\ registryFile \in StoredFiles
    /\ devices = loadRegistry(registryFile)
    /\ registryMutex = NoTask
    /\ rxPc = "idle" /\ rxPkt = NoPkt /\ rxIdx = 0 /\ rxDoc = <<>> /\ rxLen = 0
    /\ packetsReceived = 0 /\ packetsDropped = 0 /\ duplicatesFiltered = 0
    /\ rxPacketQueue = <<>>
    /\ mqPc = "idle" /\ mqPkt = NoPkt /\ mqDoc = <<>> /\ mqRet = "idle" /\ mqI = 0
    /\ webPc = "idle" /\ serPc = "idle"
    /\ commandQueue = <<>>
    /\ qc = [t \in QueueCallers |-> NoCall]
    /\ snd = [t \in Senders |-> NoCall]
    /\ radioMutex = NoTask /\ radioState = "RX" /\ transmitting = {}
    /\ recent = [d \in DeviceIds |-> <<>>]
    /\ lastDecision = [kind |-> "none"]
    /\ committed = devices
    /\ lastObs = [i \in Records |-> NoObs]
    /\ snapOk = TRUE /\ snapDuring = "none"
    /\ ringTag = [i \in Records |-> [j \in Slots |-> "init"]]
    /\ lastClear = [kind |-> "none"]
    /\ lastClean = NoClean
    /\ lastPublish = "none"
    /\ txAck = NoAck
    /\ dbManager = [status |-> "DB_DISCONNECTED", writeQueue |-> <<>>,
                    failedWrites |-> 0, writes |-> 0, dropped |-> 0]
    /\ wdt = [pc |-> "top", left |-> 0, wait |-> 0, mq |-> 0, rx |-> 0]
    /\ lookup = [fn |-> "none"]

\* the gateway right after setup(): millis() is small
Init == boot = 0 /\ now = boot /\ InitBase /\ codec = [stage |-> "none"]

(* ----------------------------- LoRa RX task ---------------------------- *)
\* loraRxTask: DIO1 is high, readData returns a frame; length and header checks
RxRead(f, rssi, snr) ==
    /\ rxPc = "idle"
    /\ packetsReceived < MaxFrames
    /\ packetsReceived' = packetsReceived + 1
    /\ now' = (now + FrameGap) % MILLIS_WRAP
    /\ radioState' = "STANDBY"
    /\ IF ~f.lenOk \/ ~f.hdrOk
       THEN /\ packetsDropped' = packetsDropped + 1
            /\ rxLen' = 0
            /\ UNCHANGED <<rxPc, rxPkt>>
       ELSE /\ rxPkt' = [kind |-> f.kind, deviceId |-> f.deviceId,
                         sequenceNum |-> f.sequenceNum, name |-> f.name,
                         header |-> f.header,
                         rssi |-> rssi, snr |-> snr, timestamp |-> now']
            /\ rxLen' = f.packetLen
            /\ rxPc' = "isDuplicate"
            /\ UNCHANGED packetsDropped
    /\ UNCHANGED <<regVars, rxIdx, rxDoc, duplicatesFiltered, rxPacketQueue,
                   mqVars, cmdVars, boot, codec, txAck, dbManager, wdt, lookup, lastClean, lastPublish, radioMutex, transmitting, histVars>>

\* loraRxTask: readData reports a CRC mismatch or another error
RxReadError ==
    /\ rxPc = "idle"
    /\ radioState # "RX"
    /\ radioState' = "RX"
    /\ UNCHANGED <<regVars, rxVars, mqVars, cmdVars, boot, codec, txAck, dbManager, wdt, lookup, lastClean, lastPublish, radioMutex, transmitting, now, histVars>>

\* a receive task that counts a filtered duplicate as dropped, too
RxIsDuplicateCountsDropped ==
    /\ rxPc = "isDuplicate"
    /\ LOCK_REGISTRY(registryMutex)
    /\ LET dup == isDuplicate(devices, rxPkt.deviceId, rxPkt.sequenceNum)
           i == FindDevice(devices, rxPkt.deviceId)
       IN /\ lastDecision' =
                [kind |-> "checked", deviceId |-> rxPkt.deviceId,
                 sequenceNum |-> rxPkt.sequenceNum, dup |-> dup,
                 inRecent |-> rxPkt.sequenceNum \in Range(recent[rxPkt.deviceId]),
                 stale |-> i # 0 /\ \E j \in Slots : ringTag[i][j] = "old"]
          /\ IF dup
             THEN /\ duplicatesFiltered' = duplicatesFiltered + 1
                  /\ packetsDropped' = packetsDropped + 1
                  /\ rxPc' = "idle"
                  /\ rxPkt' = NoPkt
                  /\ rxLen' = 0
             ELSE /\ rxPc' = "updateDeviceInfo"
                  /\ UNCHANGED <<duplicatesFiltered, rxPkt, rxLen, packetsDropped>>
    /\ UNCHANGED <<regVars, rxIdx, rxDoc, packetsReceived,
                   rxPacketQueue, mqVars, cmdVars, boot, codec, txAck, dbManager, wdt, lookup, lastClean, lastPublish, radioVars, now, recent, committed,
                   lastObs, snapOk, snapDuring, ringTag, lastClear>>

\* loraRxTask: isDuplicate(header->deviceId, header->sequenceNum)
RxIsDuplicate ==
    /\ rxPc = "isDuplicate"
    /\ LOCK_REGISTRY(registryMutex)
    /\ LET dup == isDuplicate(devices, rxPkt.deviceId, rxPkt.sequenceNum)
           i == FindDevice(devices, rxPkt.deviceId)
       IN /\ lastDecision' =
                [kind |-> "checked", deviceId |-> rxPkt.deviceId,
                 sequenceNum |-> rxPkt.sequenceNum, dup |-> dup,
                 inRecent |-> rxPkt.sequenceNum \in Range(recent[rxPkt.deviceId]),
                 stale |-> i # 0 /\ \E j \in Slots : ringTag[i][j] = "old"]
          /\ IF dup
             THEN /\ duplicatesFiltered' = duplicatesFiltered + 1
                  /\ rxPc' = "idle"
                  /\ rxPkt' = NoPkt
                  /\ rxLen' = 0
             ELSE /\ rxPc' = "updateDeviceInfo"
                  /\ UNCHANGED <<duplicatesFiltered, rxPkt, rxLen>>
    /\ UNCHANGED <<regVars, rxIdx, rxDoc, packetsReceived, packetsDropped,
                   rxPacketQueue, mqVars, cmdVars, boot, codec, txAck, dbManager, wdt, lookup, lastClean, lastPublish, radioVars, now, recent, committed,
                   lastObs, snapOk, snapDuring, ringTag, lastClear>>

\* updateDeviceInfo: take the lock and search for the record
RxUpdateFind ==
    /\ rxPc = "updateDeviceInfo"
    /\ LOCK_REGISTRY(registryMutex)
    /\ LET i == FindDevice(devices, rxPkt.deviceId)
       IN IF i # 0
          THEN /\ registryMutex' = "rx"
               /\ rxIdx' = i
               /\ rxPc' = "updMetrics"
          ELSE /\ rxPc' = "addDevice"
               /\ UNCHANGED <<registryMutex, rxIdx>>
    /\ UNCHANGED <<rxLen, devices, registryFile, rxPkt, rxDoc, packetsReceived,
                   packetsDropped, duplicatesFiltered, rxPacketQueue, mqVars, cmdVars, boot, codec, txAck, dbManager, wdt, lookup, lastClean, lastPublish,
                   radioVars, now, histVars>>

\* updateDeviceInfo: record not found, addDevice(deviceId, name, "Unknown")
RxAddDevice ==
    /\ rxPc = "addDevice"
    /\ LOCK_REGISTRY(registryMutex)
    /\ devices' = addDevice(devices, rxPkt.deviceId, DefaultName(rxPkt.deviceId),
                            "Unknown", now)
    /\ committed' = devices'
    /\ rxPc' = IF Len(devices) >= MAX_SENSORS THEN "relock" ELSE "saveBuild"
    /\ UNCHANGED <<rxLen, registryMutex, registryFile, rxPkt, rxIdx, rxDoc,
                   packetsReceived, packetsDropped, duplicatesFiltered,
                   rxPacketQueue, mqVars, cmdVars, boot, codec, txAck, dbManager, wdt, lookup, lastClean, lastPublish, radioVars, now, recent, lastDecision,
                   lastObs, snapOk, snapDuring, ringTag, lastClear>>

\* saveRegistry called by addDevice: build the document under the lock
RxSaveBuild ==
    /\ rxPc = "saveBuild"
    /\ LOCK_REGISTRY(registryMutex)
    /\ rxDoc' = SaveDoc(devices)
    /\ rxPc' = "saveWrite"
    /\ UNCHANGED <<rxLen, regVars, rxPkt, rxIdx, packetsReceived, packetsDropped,
                   duplicatesFiltered, rxPacketQueue, mqVars, cmdVars, boot, codec, txAck, dbManager, wdt, lookup, lastClean, lastPublish, radioVars, now,
                   histVars>>

\* saveRegistry: write the document to the file (ok), or fail to open it
RxSaveWrite(ok) ==
    /\ rxPc = "saveWrite"
    /\ registryFile' = IF ok THEN rxDoc ELSE registryFile
    /\ rxDoc' = <<>>
    /\ rxPc' = "relock"
    /\ UNCHANGED <<rxLen, devices, registryMutex, rxPkt, rxIdx, packetsReceived,
                   packetsDropped, duplicatesFiltered, rxPacketQueue, mqVars, cmdVars, boot, codec, txAck, dbManager, wdt, lookup, lastClean, lastPublish,
                   radioVars, now, histVars>>

\* updateDeviceInfo: LOCK_REGISTRY(); device = &devices[deviceCount - 1]
RxRelock ==
    /\ rxPc = "relock"
    /\ LOCK_REGISTRY(registryMutex)
    /\ registryMutex' = "rx"
    /\ rxIdx' = Len(devices)
    /\ rxPc' = "updMetrics"
    /\ UNCHANGED <<rxLen, devices, registryFile, rxPkt, rxDoc, packetsReceived,
                   packetsDropped, duplicatesFiltered, rxPacketQueue, mqVars, cmdVars, boot, codec, txAck, dbManager, wdt, lookup, lastClean, lastPublish,
                   radioVars, now, histVars>>

\* updateDeviceInfo: device->lastSeen, lastRssi, lastSnr (lock held)
RxUpdMetrics ==
    /\ rxPc = "updMetrics"
    /\ devices' = UpdateMetrics(devices, rxIdx, now, rxPkt.rssi, rxPkt.snr)
    /\ rxPc' = "updRing"
    /\ UNCHANGED <<rxLen, registryMutex, registryFile, rxPkt, rxIdx, rxDoc,
                   packetsReceived, packetsDropped, duplicatesFiltered,
                   rxPacketQueue, mqVars, cmdVars, boot, codec, txAck, dbManager, wdt, lookup, lastClean, lastPublish, radioVars, now, histVars>>

\* updateDeviceInfo: packetCount, lastSequence, ring write, UNLOCK_REGISTRY()
RxUpdRing ==
    /\ rxPc = "updRing"
    /\ devices' = UpdateSequence(devices, rxIdx, rxPkt.sequenceNum)
    /\ registryMutex' = NoTask
    /\ committed' = devices'
    /\ lastObs' = [lastObs EXCEPT ![rxIdx] =
                      [t |-> devices[rxIdx].lastSeen, rssi |-> rxPkt.rssi,
                       snr |-> rxPkt.snr, seq |-> rxPkt.sequenceNum,
                       count |-> devices'[rxIdx].packetCount]]
    /\ recent' = [recent EXCEPT ![rxPkt.deviceId] = AppendRecent(@, rxPkt.sequenceNum)]
    /\ LET own == FindDevice(devices, rxPkt.deviceId)
           startup == rxPkt.kind = "EVENT_STARTUP"
           aged == IF startup /\ own # 0
                   THEN [ringTag EXCEPT ![own] =
                            [j \in Slots |-> IF @[j] = "init" THEN "init" ELSE "old"]]
                   ELSE ringTag
       IN ringTag' = [aged EXCEPT ![rxIdx][devices[rxIdx].bufferIndex] =
                         IF startup THEN "own" ELSE "new"]
    /\ snapDuring' = "none"
    /\ rxPc' = "enqueue"
    /\ UNCHANGED <<rxLen, registryFile, rxPkt, rxIdx, rxDoc, packetsReceived,
                   packetsDropped, duplicatesFiltered, rxPacketQueue, mqVars, cmdVars, boot, codec, txAck, dbManager, wdt, lookup, lastClean, lastPublish,
                   radioVars, now, lastDecision, snapOk, lastClear>>

\* an ACK for every message type
AckWantedAlways(kind) == TRUE

AckWanted(kind) == MsgTypeOf(kind) \in {"READINGS", "STATUS", "EVENT"}

\* loraRxTask: xQueueSend(rxPacketQueue, &packet, 100 ms) finds room
RxEnqueue ==
    /\ rxPc = "enqueue"
    /\ Len(rxPacketQueue) < RX_QUEUE_LEN
    /\ rxPacketQueue' = Append(rxPacketQueue, rxPkt)
    /\ rxPc' = IF AckWanted(rxPkt.kind) THEN "sendAck" ELSE "startReceive"
    /\ UNCHANGED <<rxLen, regVars, rxPkt, rxIdx, rxDoc, packetsReceived, packetsDropped,
                   duplicatesFiltered, mqVars, cmdVars, boot, codec, txAck, dbManager, wdt, lookup, lastClean, lastPublish, radioVars, now, histVars>>

\* a queue that makes room by giving up its oldest packet
RxEnqueueDropOldest ==
    /\ rxPc = "enqueue"
    /\ Len(rxPacketQueue) >= RX_QUEUE_LEN
    /\ packetsDropped' = packetsDropped + 1
    /\ rxPacketQueue' = Append(Tail(rxPacketQueue), rxPkt)
    /\ rxPc' = IF AckWanted(rxPkt.kind) THEN "sendAck" ELSE "startReceive"
    /\ UNCHANGED <<rxLen, regVars, rxPkt, rxIdx, rxDoc, packetsReceived,
                   duplicatesFiltered, mqVars, cmdVars, boot, codec, txAck, dbManager, wdt, lookup,
                   lastClean, lastPublish, radioVars, now, histVars>>

\* loraRxTask: the queue stayed full for the whole timeout
RxEnqueueTimeout ==
    /\ rxPc = "enqueue"
    /\ Len(rxPacketQueue) >= RX_QUEUE_LEN
    /\ packetsDropped' = packetsDropped + 1
    /\ rxPc' = IF AckWanted(rxPkt.kind) THEN "sendAck" ELSE "startReceive"
    /\ UNCHANGED <<rxLen, regVars, rxPkt, rxIdx, rxDoc, packetsReceived,
                   duplicatesFiltered, rxPacketQueue, mqVars, cmdVars, boot, codec, txAck, dbManager, wdt, lookup, lastClean, lastPublish, radioVars, now,
                   histVars>>

\* sendAck: radio->transmit(txBuffer) begins; no mutex is taken
RxAckTransmit ==
    /\ rxPc = "sendAck"
    /\ transmitting' = transmitting \cup {"rx"}
    /\ radioState' = "TX"
    /\ rxPc' = "ackDone"
    /\ txAck' = AckPayload(rxPkt.header.sequenceNum)
    /\ UNCHANGED <<rxLen, regVars, rxPkt, rxIdx, rxDoc, packetsReceived, packetsDropped,
                   duplicatesFiltered, rxPacketQueue, mqVars, cmdVars, boot, codec, dbManager, wdt, lookup,
                   lastClean, lastPublish,
                   radioMutex, now,
                   histVars>>

\* sendAck: transmit returned (either result), radio->startReceive()
RxAckDone ==
    /\ rxPc = "ackDone"
    /\ transmitting' = transmitting \ {"rx"}
    /\ radioState' = "RX"
    /\ rxPc' = "startReceive"
    /\ UNCHANGED <<rxLen, regVars, rxPkt, rxIdx, rxDoc, packetsReceived, packetsDropped,
                   duplicatesFiltered, rxPacketQueue, mqVars, cmdVars, boot, codec, txAck, dbManager, wdt, lookup, lastClean, lastPublish, radioMutex, now,
                   histVars>>

\* loraRxTask: radio->startReceive() at the end of the accepted path
RxStartReceive ==
    /\ rxPc = "startReceive"
    /\ radioState' = "RX"
    /\ rxPc' = "idle"
    /\ rxPkt' = NoPkt
    /\ rxLen' = 0
    /\ txAck' = NoAck
    /\ UNCHANGED <<regVars, rxIdx, rxDoc, packetsReceived, packetsDropped,
                   duplicatesFiltered, rxPacketQueue, mqVars, cmdVars, boot, codec, dbManager, wdt, lookup,
                   lastClean, lastPublish,
                   radioMutex,
                   transmitting, now, histVars>>

RxStep ==
    \/ \E f \in Frames, rssi \in RssiValues, snr \in SnrValues : RxRead(f, rssi, snr)
    \/ RxReadError
    \/ RxIsDuplicate
    \/ RxUpdateFind
    \/ RxAddDevice
    \/ RxSaveBuild
    \/ \E ok \in SaveOutcomes : RxSaveWrite(ok)
    \/ RxRelock
    \/ RxUpdMetrics
    \/ RxUpdRing
    \/ RxEnqueue
    \/ RxEnqueueTimeout
    \/ RxAckTransmit
    \/ RxAckDone
    \/ RxStartReceive


(* ----------------------------- sendCommand ----------------------------- *)
notCmd == <<regVars, rxVars, now, boot, codec, txAck, dbManager, wdt, lookup, histVars, lastClean, lastPublish>>

SendCall(c) ==
    [pc |-> "take", sensorId |-> c.sensorId, cmdType |-> c.cmdType,
     params |-> c.params, paramLen |-> c.paramLen]
SendReturn(t, result) == [snd EXCEPT ![t] = [pc |-> "ret", result |-> result]]

\* sendCommand: xSemaphoreTake(radioMutex, 5000 ms) succeeds
SendTake(t) ==
    /\ snd[t].pc = "take"
    /\ radioMutex = NoTask
    /\ radioMutex' = t
    /\ snd' = [snd EXCEPT ![t].pc = "standby"]
    /\ UNCHANGED <<notCmd, mqVars, commandQueue, qc, webPc, serPc, radioState,
                   transmitting>>

\* a sendCommand that goes on to the radio after the 5 s without the mutex
SendTakeIgnoreTimeout(t) ==
    /\ snd[t].pc = "take"
    /\ radioMutex # NoTask
    /\ snd' = [snd EXCEPT ![t].pc = "standby"]
    /\ UNCHANGED <<notCmd, mqVars, commandQueue, qc, webPc, serPc, radioVars>>

\* sendCommand: the mutex stayed taken for 5 s, return false
SendTakeTimeout(t) ==
    /\ snd[t].pc = "take"
    /\ radioMutex # NoTask
    /\ snd' = SendReturn(t, FALSE)
    /\ UNCHANGED <<notCmd, mqVars, commandQueue, qc, webPc, serPc, radioVars>>

\* a sendCommand that returns from a failed standby() with the mutex
SendStandbyKeepsMutex(t, outcome) ==
    /\ snd[t].pc = "standby"
    /\ CASE outcome = "ok" ->
              /\ radioState' = "STANDBY"
              /\ snd' = [snd EXCEPT ![t].pc = "transmit"]
              /\ UNCHANGED radioMutex
         [] outcome = "standbyFailed" ->
              /\ snd' = SendReturn(t, FALSE)
              /\ UNCHANGED <<radioState, radioMutex>>
         [] outcome = "busyTimeout" ->
              /\ radioState' = "RX"
              /\ radioMutex' = NoTask
              /\ snd' = SendReturn(t, FALSE)
    /\ UNCHANGED <<notCmd, mqVars, commandQueue, qc, webPc, serPc, transmitting>>

\* sendCommand: radio->standby() and the wait for the BUSY line
SendStandby(t, outcome) ==
    /\ snd[t].pc = "standby"
    /\ CASE outcome = "ok" ->
              /\ radioState' = "STANDBY"
              /\ snd' = [snd EXCEPT ![t].pc = "transmit"]
              /\ UNCHANGED radioMutex
         [] outcome = "standbyFailed" ->
              /\ radioMutex' = NoTask
              /\ snd' = SendReturn(t, FALSE)
              /\ UNCHANGED radioState
         [] outcome = "busyTimeout" ->
              /\ radioState' = "RX"
              /\ radioMutex' = NoTask
              /\ snd' = SendReturn(t, FALSE)
    /\ UNCHANGED <<notCmd, mqVars, commandQueue, qc, webPc, serPc, transmitting>>

\* sendCommand: radio->transmit(packet) begins
SendTransmit(t) ==
    /\ snd[t].pc = "transmit"
    /\ transmitting' = transmitting \cup {t}
    /\ radioState' = "TX"
    /\ snd' = [snd EXCEPT ![t].pc = "txdone"]
    /\ UNCHANGED <<notCmd, mqVars, commandQueue, qc, webPc, serPc, radioMutex>>

\* sendCommand: transmit returned; delay(10), startReceive, xSemaphoreGive
SendTxDone(t, ok) ==
    /\ snd[t].pc = "txdone"
    /\ transmitting' = transmitting \ {t}
    /\ radioState' = "RX"
    /\ radioMutex' = NoTask
    /\ snd' = SendReturn(t, ok)
    /\ UNCHANGED <<notCmd, mqVars, commandQueue, qc, webPc, serPc>>

SendOutcomes == {"ok", "standbyFailed", "busyTimeout"}
SendStep(t) ==
    \/ SendTake(t)
    \/ SendTakeTimeout(t)
    \/ \E outcome \in SendOutcomes : SendStandby(t, outcome)
    \/ SendTransmit(t)
    \/ \E ok \in BOOLEAN : SendTxDone(t, ok)

\* sendCommand called by the only task that takes the radio mutex: the take
\* finds the mutex free every time, the 1 s timeout cannot happen
SendStepAlone(t) ==
    \/ SendTake(t)
    \/ \E outcome \in SendOutcomes : SendStandby(t, outcome)
    \/ SendTransmit(t)
    \/ \E ok \in BOOLEAN : SendTxDone(t, ok)

(* ----------------------------- queueCommand ---------------------------- *)
QueueCall(c) == [pc |-> "check", cmd |-> c]
QueueReturn(t, result) == [qc EXCEPT ![t] = [pc |-> "ret", result |-> result]]

\* queueCommand: the full test, the search loop and the update of a found entry
QCheck(t) ==
    /\ qc[t].pc = "check"
    /\ LET c == qc[t].cmd
           i == FindQueued(commandQueue, c.sensorId, c.cmdType)
       IN IF QueueFull(commandQueue)
          THEN /\ qc' = QueueReturn(t, FALSE)
               /\ UNCHANGED commandQueue
          ELSE IF i # 0
               THEN /\ commandQueue' =
                          [commandQueue EXCEPT ![i] = RequeueEntry(@, c, now)]
                    /\ qc' = QueueReturn(t, TRUE)
               ELSE /\ qc' = [qc EXCEPT ![t].pc = "write"]
                    /\ UNCHANGED commandQueue
    /\ UNCHANGED <<notCmd, mqVars, snd, webPc, serPc, radioVars>>

\* queueCommand: fill commandQueue[queueSize], queueSize++, call sendCommand.
\* With queueSize already MAX_QUEUED_COMMANDS (another task appended since the
\* full test) the write lands behind the array: what is read back from there
\* is the entry or something else
QWrite(t) ==
    /\ qc[t].pc = "write"
    /\ \E e \in IF Len(commandQueue) < MAX_QUEUED_COMMANDS
                THEN {NewEntry(qc[t].cmd, now)}
                ELSE {NewEntry(qc[t].cmd, now), TornEntry} :
          commandQueue' = Append(commandQueue, e)
    /\ snd' = [snd EXCEPT ![t] = SendCall(qc[t].cmd)]
    /\ qc' = [qc EXCEPT ![t].pc = "send"]
    /\ UNCHANGED <<notCmd, mqVars, webPc, serPc, radioVars>>

\* a queueCommand that takes the entry out again when its transmission succeeded
QSentRemoveOnSuccess(t) ==
    /\ qc[t].pc = "send"
    /\ snd[t].pc = "ret"
    /\ snd' = [snd EXCEPT ![t] = NoCall]
    /\ qc' = QueueReturn(t, TRUE)
    /\ commandQueue' = IF snd[t].result
                       THEN SubSeq(commandQueue, 1, Len(commandQueue) - 1)
                       ELSE commandQueue
    /\ UNCHANGED <<notCmd, mqVars, webPc, serPc, radioVars>>

\* queueCommand: sendCommand returned, its result is ignored; return true
QSent(t) ==
    /\ qc[t].pc = "send"
    /\ snd[t].pc = "ret"
    /\ snd' = [snd EXCEPT ![t] = NoCall]
    /\ qc' = QueueReturn(t, TRUE)
    /\ UNCHANGED <<notCmd, mqVars, commandQueue, webPc, serPc, radioVars>>

QueueStep(t) == QCheck(t) \/ QWrite(t) \/ QSent(t)


(* ------------------------------ MQTT task ------------------------------ *)
notMq == <<rxPc, rxPkt, rxIdx, rxDoc, rxLen, packetsReceived, packetsDropped,
           duplicatesFiltered, webPc, serPc, radioVars, now, boot, codec, txAck, dbManager, wdt, lookup>>
histNoReg == <<recent, lastDecision, lastObs, snapOk, snapDuring, ringTag, lastClear>>

\* mqttCallback: a command arrives on lora/command, queueCommand is called
MqCallback(c) ==
    /\ mqPc = "idle"
    /\ qc' = [qc EXCEPT !["mqtt"] = QueueCall(c)]
    /\ mqPc' = "callback"
    /\ UNCHANGED <<notMq, lastClean, lastPublish, regVars, rxPacketQueue, mqPkt, mqDoc, mqRet, mqI,
                   commandQueue, snd, histVars>>

\* mqttCallback: queueCommand returned; publish the ack when it succeeded
MqCallbackDone ==
    /\ mqPc = "callback"
    /\ qc["mqtt"].pc = "ret"
    /\ qc' = [qc EXCEPT !["mqtt"] = NoCall]
    /\ mqPc' = "idle"
    /\ UNCHANGED <<notMq, lastClean, lastPublish, regVars, rxPacketQueue, mqPkt, mqDoc, mqRet, mqI,
                   commandQueue, snd, histVars>>

\* a receive that takes the packet queued last
MqReceiveNewest ==
    /\ mqPc = "idle"
    /\ rxPacketQueue # <<>>
    /\ mqPkt' = rxPacketQueue[Len(rxPacketQueue)]
    /\ rxPacketQueue' = SubSeq(rxPacketQueue, 1, Len(rxPacketQueue) - 1)
    /\ mqPc' = "retry"
    /\ lastPublish' = "none"
    /\ UNCHANGED <<notMq, lastClean, regVars, mqDoc, mqRet, mqI, commandQueue, qc, snd,
                   histVars>>

\* mqttTask: xQueueReceive(packetQueue, &packet, 100 ms), then the 3 s delay
MqReceive ==
    /\ mqPc = "idle"
    /\ rxPacketQueue # <<>>
    /\ mqPkt' = Head(rxPacketQueue)
    /\ rxPacketQueue' = Tail(rxPacketQueue)
    /\ mqPc' = "retry"
    /\ lastPublish' = "none"
    /\ UNCHANGED <<notMq, lastClean, regVars, mqDoc, mqRet, mqI, commandQueue, qc, snd,
                   histVars>>

\* mqttTask: switch (packet.header.msgType), the first step of each branch
Route(kind) ==
    CASE kind = "READINGS" -> "getName"
      [] kind = "STATUS" -> "updateName"
      [] kind = "EVENT_STARTUP" -> "clear"
      [] kind = "EVENT_OTHER" -> "getName"
      [] OTHER -> "idle"

\* retryCommandsForSensor: cleanExpiredCommands(), then the loop starts at 0
MqRetryClean ==
    /\ mqPc = "retry"
    /\ commandQueue' = cleanExpiredCommands(commandQueue, now)
    /\ lastClean' = [removed |-> Len(commandQueue) - Len(commandQueue'),
                     kept |-> Len(commandQueue'),
                     start |-> commandQueue', tried |-> <<>>]
    /\ mqI' = 1
    /\ mqPc' = "retryLoop"
    /\ UNCHANGED <<notMq, lastPublish, regVars, rxPacketQueue, mqPkt, mqDoc, mqRet, qc, snd,
                   histVars>>

\* a retry loop that does not look at the target of an entry
MqRetryNextAnyTarget ==
    /\ mqPc = "retryLoop"
    /\ IF mqI > Len(commandQueue)
       THEN /\ mqPc' = Route(mqPkt.kind)
            /\ mqI' = 0
            /\ lastClean' = NoClean
            /\ UNCHANGED <<commandQueue, snd>>
       ELSE IF commandQueue[mqI].sensorId \in CmdTargets
            THEN /\ commandQueue' =
                      [commandQueue EXCEPT ![mqI].retryCount = (@ + 1) % 256]
                 /\ snd' = [snd EXCEPT !["mqtt"] = SendCall(commandQueue[mqI])]
                 /\ mqPc' = "retrySend"
                 /\ lastClean' = [lastClean EXCEPT
                                    !.tried = Append(@, commandQueue[mqI])]
                 /\ UNCHANGED mqI
            ELSE /\ mqI' = mqI + 1
                 /\ UNCHANGED <<mqPc, commandQueue, snd, lastClean>>
    /\ UNCHANGED <<notMq, lastPublish, regVars, rxPacketQueue, mqPkt, mqDoc, mqRet, qc,
                   histVars>>

\* retryCommandsForSensor: one pass of the for loop up to the call of sendCommand
MqRetryNext ==
    /\ mqPc = "retryLoop"
    /\ IF mqI > Len(commandQueue)
       THEN /\ mqPc' = Route(mqPkt.kind)
            /\ mqI' = 0
            /\ lastClean' = NoClean
            /\ UNCHANGED <<commandQueue, snd>>
       ELSE IF commandQueue[mqI].sensorId = mqPkt.deviceId
            THEN /\ commandQueue' =
                      [commandQueue EXCEPT ![mqI].retryCount = (@ + 1) % 256]
                 /\ snd' = [snd EXCEPT !["mqtt"] = SendCall(commandQueue[mqI])]
                 /\ mqPc' = "retrySend"
                 /\ lastClean' = [lastClean EXCEPT
                                    !.tried = Append(@, commandQueue[mqI])]
                 /\ UNCHANGED mqI
            ELSE /\ mqI' = mqI + 1
                 /\ UNCHANGED <<mqPc, commandQueue, snd, lastClean>>
    /\ UNCHANGED <<notMq, lastPublish, regVars, rxPacketQueue, mqPkt, mqDoc, mqRet, qc,
                   histVars>>

\* a retry that removes the entry whatever sendCommand returned
MqRetrySentAlwaysRemove ==
    /\ mqPc = "retrySend"
    /\ snd["mqtt"].pc = "ret"
    /\ IF snd["mqtt"].result \in BOOLEAN
       THEN /\ commandQueue' = RemoveAt(commandQueue, mqI)
            /\ UNCHANGED mqI
       ELSE /\ mqI' = mqI + 1
            /\ UNCHANGED commandQueue
    /\ snd' = [snd EXCEPT !["mqtt"] = NoCall]
    /\ mqPc' = "retryLoop"
    /\ UNCHANGED <<notMq, lastClean, lastPublish, regVars, rxPacketQueue, mqPkt, mqDoc, mqRet, qc, histVars>>

\* a retry that forgets to step the index back after a removal
MqRetrySentSkipAfterRemove ==
    /\ mqPc = "retrySend"
    /\ snd["mqtt"].pc = "ret"
    /\ commandQueue' = IF snd["mqtt"].result THEN RemoveAt(commandQueue, mqI)
                       ELSE commandQueue
    /\ mqI' = mqI + 1
    /\ snd' = [snd EXCEPT !["mqtt"] = NoCall]
    /\ mqPc' = "retryLoop"
    /\ UNCHANGED <<notMq, lastClean, lastPublish, regVars, rxPacketQueue, mqPkt, mqDoc, mqRet, qc, histVars>>

\* a retry that removes the first entry of the queue after a success
MqRetrySentRemoveFirst ==
    /\ mqPc = "retrySend"
    /\ snd["mqtt"].pc = "ret"
    /\ IF snd["mqtt"].result
       THEN /\ commandQueue' = RemoveAt(commandQueue, 1)
            /\ UNCHANGED mqI
       ELSE /\ mqI' = mqI + 1
            /\ UNCHANGED commandQueue
    /\ snd' = [snd EXCEPT !["mqtt"] = NoCall]
    /\ mqPc' = "retryLoop"
    /\ UNCHANGED <<notMq, lastClean, lastPublish, regVars, rxPacketQueue, mqPkt, mqDoc, mqRet, qc, histVars>>

\* retryCommandsForSensor: sendCommand returned; remove on success; delay(50)
MqRetrySent ==
    /\ mqPc = "retrySend"
    /\ snd["mqtt"].pc = "ret"
    /\ IF snd["mqtt"].result
       THEN /\ commandQueue' = RemoveAt(commandQueue, mqI)
            /\ UNCHANGED mqI
       ELSE /\ mqI' = mqI + 1
            /\ UNCHANGED commandQueue
    /\ snd' = [snd EXCEPT !["mqtt"] = NoCall]
    /\ mqPc' = "retryLoop"
    /\ UNCHANGED <<notMq, lastClean, lastPublish, regVars, rxPacketQueue, mqPkt, mqDoc, mqRet, qc, histVars>>

\* publishStatus: updateDeviceName(deviceId, sensorName) when the name is set
MqUpdateName ==
    /\ mqPc = "updateName"
    /\ LOCK_REGISTRY(registryMutex)
    /\ LET i == FindDevice(devices, mqPkt.deviceId)
       IN IF mqPkt.name # "" /\ i # 0 /\ devices[i].deviceName # mqPkt.name
          THEN /\ devices' = [devices EXCEPT ![i].deviceName = mqPkt.name]
               /\ mqPc' = "saveBuild"
               /\ mqRet' = "getName"
          ELSE /\ mqPc' = "getName"
               /\ UNCHANGED <<devices, mqRet>>
    /\ committed' = devices'
    /\ UNCHANGED <<notMq, lastClean, lastPublish, registryMutex, registryFile, rxPacketQueue, mqPkt,
                   mqDoc, mqI, cmdVars, histNoReg>>

\* publishEvent: eventType == 0x01, clearDuplicationBuffer(deviceId)
MqClear ==
    /\ mqPc = "clear"
    /\ LOCK_REGISTRY(registryMutex)
    /\ devices' = clearDuplicationBuffer(devices, mqPkt.deviceId)
    /\ committed' = devices'
    /\ recent' = [recent EXCEPT ![mqPkt.deviceId] = <<>>]
    /\ LET i == FindDevice(devices, mqPkt.deviceId)
       IN /\ lastClear' = [kind |-> "cleared", deviceId |-> mqPkt.deviceId,
                           erasedNew |-> i # 0 /\ \E j \in Slots : ringTag[i][j] = "new"]
          /\ ringTag' = IF i = 0 THEN ringTag
                        ELSE [ringTag EXCEPT ![i] = [j \in Slots |-> "init"]]
    /\ mqPc' = "getName"
    /\ UNCHANGED <<notMq, lastClean, lastPublish, registryMutex, registryFile, rxPacketQueue, mqPkt,
                   mqDoc, mqRet, mqI, cmdVars, lastDecision, lastObs, snapOk,
                   snapDuring>>

\* getDeviceName: the search under the lock
MqGetName ==
    /\ mqPc = "getName"
    /\ LOCK_REGISTRY(registryMutex)
    /\ mqPc' = IF FindDevice(devices, mqPkt.deviceId) # 0 THEN "publish" ELSE "addDevice"
    /\ UNCHANGED <<notMq, lastClean, lastPublish, regVars, rxPacketQueue, mqPkt, mqDoc, mqRet, mqI,
                   cmdVars, histVars>>

\* getDeviceName: not found, addDevice(deviceId, defaultName, "Unknown")
MqAddDevice ==
    /\ mqPc = "addDevice"
    /\ LOCK_REGISTRY(registryMutex)
    /\ devices' = addDevice(devices, mqPkt.deviceId, DefaultName(mqPkt.deviceId),
                            "Unknown", now)
    /\ committed' = devices'
    /\ IF Len(devices) >= MAX_SENSORS
       THEN mqPc' = "publish" /\ UNCHANGED mqRet
       ELSE mqPc' = "saveBuild" /\ mqRet' = "publish"
    /\ UNCHANGED <<notMq, lastClean, lastPublish, registryMutex, registryFile, rxPacketQueue, mqPkt,
                   mqDoc, mqI, cmdVars, histNoReg>>

\* saveRegistry: build the document under the lock
MqSaveBuild ==
    /\ mqPc = "saveBuild"
    /\ LOCK_REGISTRY(registryMutex)
    /\ mqDoc' = SaveDoc(devices)
    /\ mqPc' = "saveWrite"
    /\ UNCHANGED <<notMq, lastClean, lastPublish, regVars, rxPacketQueue, mqPkt, mqRet, mqI, cmdVars,
                   histVars>>

\* saveRegistry: write the document to the file (ok), or fail to open it
MqSaveWrite(ok) ==
    /\ mqPc = "saveWrite"
    /\ registryFile' = IF ok THEN mqDoc ELSE registryFile
    /\ mqDoc' = <<>>
    /\ mqPc' = mqRet
    /\ mqRet' = "idle"
    /\ UNCHANGED <<notMq, lastClean, lastPublish, devices, registryMutex, rxPacketQueue, mqPkt, mqI,
                   cmdVars, histVars>>

\* a publish that puts the packet back into the queue when the broker did
\* not take it
MqPublishRequeue(ok) ==
    /\ mqPc = "publish"
    /\ LOCK_REGISTRY(registryMutex)
    /\ mqPc' = "idle"
    /\ mqPkt' = NoPkt
    /\ lastPublish' = IF ok THEN "sent" ELSE "failed"
    /\ rxPacketQueue' = IF ok \/ Len(rxPacketQueue) >= RX_QUEUE_LEN
                        THEN rxPacketQueue ELSE Append(rxPacketQueue, mqPkt)
    /\ UNCHANGED <<notMq, lastClean, regVars, mqDoc, mqRet, mqI, cmdVars, histVars>>

\* publishReadings/Status/Event: getDeviceLocation, then mqttClient.publish
\* returns ok (false also when the broker is not connected); the result is
\* only logged and the packet, a local of the task loop, is gone
MqPublish(ok) ==
    /\ mqPc = "publish"
    /\ LOCK_REGISTRY(registryMutex)
    /\ mqPc' = "idle"
    /\ mqPkt' = NoPkt
    /\ lastPublish' = IF ok THEN "sent" ELSE "failed"
    /\ UNCHANGED <<notMq, lastClean, regVars, rxPacketQueue, mqDoc, mqRet, mqI, cmdVars,
                   histVars>>

MqPublishStep ==
    \/ MqReceive
    \/ MqRetryClean
    \/ MqRetryNext
    \/ MqGetName
    \/ MqAddDevice
    \/ MqSaveBuild
    \/ \E ok \in SaveOutcomes : MqSaveWrite(ok)
    \/ (\E ok \in BOOLEAN : MqPublish(ok))

(* ------------------------ web handler and console ---------------------- *)
notWeb == <<regVars, rxVars, mqVars, now, boot, codec, txAck, dbManager, wdt, lookup, lastClean, lastPublish>>

\* /api/command: the handler calls queueCommand
WebCommand(c) ==
    /\ webPc = "idle"
    /\ qc' = [qc EXCEPT !["web"] = QueueCall(c)]
    /\ webPc' = "command"
    /\ UNCHANGED <<notWeb, commandQueue, snd, serPc, radioVars, histVars>>

\* /api/command: queueCommand returned, request->send(200 or 500)
WebCommandDone ==
    /\ webPc = "command"
    /\ qc["web"].pc = "ret"
    /\ qc' = [qc EXCEPT !["web"] = NoCall]
    /\ webPc' = "idle"
    /\ UNCHANGED <<notWeb, commandQueue, snd, serPc, radioVars, histVars>>

\* each record of the document carries the values of one observe call,
\* or those a record has before its first one
RecordsWhole(devs) ==
    \A i \in 1..Len(devs) :
        IF lastObs[i] = NoObs
        THEN devs[i].lastRssi = 0 /\ devs[i].lastSnr = 0 /\ devs[i].lastSequence = 0
        ELSE /\ devs[i].lastSeen = lastObs[i].t
             /\ devs[i].packetCount = lastObs[i].count
             /\ devs[i].lastRssi = lastObs[i].rssi
             /\ devs[i].lastSnr = lastObs[i].snr
             /\ devs[i].lastSequence = lastObs[i].seq

\* /api/devices: getDeviceRegistrySnapshot builds the document under the lock
WebSnapshot ==
    /\ webPc = "idle"
    /\ LOCK_REGISTRY(registryMutex)
    /\ snapOk' = (Snapshot(devices) = Snapshot(committed) /\ RecordsWhole(devices))
    /\ snapDuring' = IF rxPc \in RxObserving /\ devices # <<>>
                     THEN "observing" ELSE snapDuring
    /\ UNCHANGED <<notWeb, cmdVars, radioVars, recent, lastDecision, committed,
                   lastObs, ringTag, lastClear>>

\* handleSerialCommands: send_restart <device_id> calls sendCommand directly
SerialCommand(d) ==
    /\ serPc = "idle"
    /\ snd' = [snd EXCEPT !["serial"] =
                  SendCall([sensorId |-> d, cmdType |-> CMD_RESTART,
                            params |-> <<>>, paramLen |-> 0])]
    /\ serPc' = "send"
    /\ UNCHANGED <<notWeb, commandQueue, qc, webPc, radioVars, histVars>>

\* handleSerialCommands: sendCommand returned, the result is printed
SerialDone ==
    /\ serPc = "send"
    /\ snd["serial"].pc = "ret"
    /\ snd' = [snd EXCEPT !["serial"] = NoCall]
    /\ serPc' = "idle"
    /\ UNCHANGED <<notWeb, commandQueue, qc, webPc, radioVars, histVars>>

(* ------------------------ the codec, step by step --------------------- *)
InitCodec ==
    /\ boot = 0 /\ now = boot /\ InitBase /\ registryFile = <<>>
    /\ codec \in CodecInputs

notCodec == <<regVars, rxVars, mqVars, cmdVars, radioVars, now, boot, txAck, dbManager, wdt, lookup,
              histVars,
              lastClean, lastPublish>>

\* mqttCallback: the document becomes the arguments of queueCommand, which
\* sendCommand later gets as they are
CodecHandle ==
    /\ codec.stage = "json"
    /\ mqttCommand(codec.json).ok
    /\ codec' = [stage |-> "command", json |-> codec.json, seq |-> codec.seq,
                 cmd |-> mqttCommand(codec.json).cmd]
    /\ UNCHANGED notCodec

\* sendCommand up to the transmit: more than 238 parameter bytes are refused,
\* else packet[] is built with the header of commandSeqNum
CodecBuild ==
    /\ codec.stage = "command"
    /\ codec' = IF codec.cmd.paramLen > 238
                THEN [codec EXCEPT !.stage = "refused"]
                ELSE [codec EXCEPT !.stage = "packet"]
                     @@ [packet |-> CommandPacket(codec.cmd, codec.seq)]
    /\ UNCHANGED notCodec

\* loraRxTask on the bytes of the packet: length test, validateHeader, then
\* the copy of header and payload into a ReceivedPacket; a payload longer
\* than ReceivedPacket.payload is not copied and leaves what the stack held
CodecDecode(stackByte) ==
    /\ codec.stage = "packet"
    /\ LET rxBuffer == codec.packet
           packetLen == Len(rxBuffer)
           header == ParseHeader(rxBuffer)
       IN  codec' =
             IF ~PacketLongEnough(packetLen) \/ ~validateHeader(header)
             THEN [codec EXCEPT !.stage = "dropped"]
             ELSE [codec EXCEPT !.stage = "decoded"]
                  @@ [header |-> header,
                      payload |->
                        IF header.payloadLen > 0
                           /\ header.payloadLen <= LORA_MAX_PAYLOAD_SIZE
                        THEN SubSeq(rxBuffer, HeaderSize + 1,
                                    HeaderSize + header.payloadLen)
                        ELSE [i \in 1..header.payloadLen |-> stackByte]]
    /\ UNCHANGED notCodec

(* --------------------------- database manager -------------------------- *)
\* a queueWrite that keeps a full queue and discards the new write
queueWriteDropNewest(d, endpoint, doc) ==
    IF Len(d.writeQueue) >= MAX_QUEUE_SIZE
    THEN [d EXCEPT !.failedWrites = @ + 1, !.dropped = doc]
    ELSE [d EXCEPT !.writeQueue = Append(@, [endpoint |-> endpoint, doc |-> doc])]

\* DatabaseManager::queueWrite: a full queue loses its front entry, then the
\* write goes to the back (PendingWrite.timestamp is never read)
queueWrite(d, endpoint, doc) ==
    LET full == Len(d.writeQueue) >= MAX_QUEUE_SIZE
        kept == IF full THEN Tail(d.writeQueue) ELSE d.writeQueue
    IN  [d EXCEPT !.writeQueue = Append(kept, [endpoint |-> endpoint, doc |-> doc]),
                  !.failedWrites = IF full THEN @ + 1 ELSE @,
                  !.dropped = IF full THEN d.writeQueue[1].doc ELSE @]

\* writeDevice, writeCommand, writeEvent: POST the document when connected
\* (a failed POST is counted and the document is gone), queue it otherwise
DbWrite(endpoint, posted) ==
    /\ dbManager.writes < MaxWrites
    /\ LET d == [dbManager EXCEPT !.writes = @ + 1]
       IN  IF dbManager.status = "DB_CONNECTED"
           THEN /\ ~posted => dbManager.failedWrites < MaxFailedPosts
                /\ dbManager' = [d EXCEPT !.failedWrites =
                                              IF posted THEN @ ELSE @ + 1]
           ELSE /\ posted
                /\ dbManager' = queueWrite(d, endpoint, d.writes)
    /\ UNCHANGED <<regVars, rxVars, mqVars, cmdVars, radioVars, now, boot, codec,
                   txAck, wdt, lookup, histVars, lastClean, lastPublish>>

\* DatabaseManager::loop, called by loop(): disconnected, attemptConnection
\* once the reconnect interval is over; connected, processWriteQueue posts
\* from the front until the queue is empty, MaxProcessed writes are posted or
\* a POST fails, then checkConnectionHealth
DbLoop(nPosted, failed, healthy) ==
    /\ IF dbManager.status = "DB_DISCONNECTED"
       THEN /\ nPosted = 0 /\ ~failed
            /\ dbManager' = [dbManager EXCEPT !.status =
                  IF healthy THEN "DB_CONNECTED" ELSE "DB_DISCONNECTED"]
       ELSE LET q == dbManager.writeQueue
                limit == IF Len(q) < MaxProcessed THEN Len(q) ELSE MaxProcessed
            IN  /\ nPosted <= limit
                /\ failed <=> nPosted < limit
                /\ failed => dbManager.failedWrites < MaxFailedPosts
                /\ dbManager' =
                     [dbManager EXCEPT
                        !.writeQueue = SubSeq(q, nPosted + 1, Len(q)),
                        !.failedWrites = IF failed THEN @ + 1 ELSE @,
                        !.status = IF failed \/ ~healthy
                                   THEN "DB_DISCONNECTED" ELSE @]
    /\ dbManager' # dbManager
    /\ UNCHANGED <<regVars, rxVars, mqVars, cmdVars, radioVars, now, boot, codec,
                   txAck, wdt, lookup, histVars, lastClean, lastPublish>>

(* ------------------------------ watchdog ------------------------------- *)
\* Delays are counted in whole seconds and from below: code that does not
\* block takes no time, and a blocking call takes at most its timeout.
\* mqttTask, top of its loop: esp_task_wdt_reset, the upkeep of the
\* connection, xQueueReceive; with a packet, vTaskDelay of 3 s before the
\* retry loop, which will meet n entries of the packet's device
WdtMqLoop(got, n) ==
    /\ wdt.pc = "top" /\ wdt.mq <= WDT_TIMEOUT
    /\ wdt' = IF got
              THEN [wdt EXCEPT !.mq = 0, !.pc = "delay", !.left = n, !.wait = 3]
              ELSE [wdt EXCEPT !.mq = 0]
    /\ wdt' # wdt
    /\ UNCHANGED <<regVars, rxVars, mqVars, cmdVars, radioVars, now, boot, codec,
                   txAck, dbManager, lookup, histVars, lastClean, lastPublish>>

\* retryCommandsForSensor: the next entry of the device starts sendCommand,
\* which waits for the radio mutex up to 5 s; after the last entry the packet
\* is published and the loop starts over
WdtMqRetry ==
    /\ wdt.pc \in {"delay", "retry"} /\ wdt.wait = 0 /\ wdt.mq <= WDT_TIMEOUT
    /\ wdt' = IF wdt.left > 0
              THEN [wdt EXCEPT !.pc = "take", !.left = @ - 1, !.wait = 5]
              ELSE [wdt EXCEPT !.pc = "top"]
    /\ UNCHANGED <<regVars, rxVars, mqVars, cmdVars, radioVars, now, boot, codec,
                   txAck, dbManager, lookup, histVars, lastClean, lastPublish>>

\* sendCommand: the mutex is obtained before the timeout and the wait for
\* BUSY, up to 1 s, begins; or the take times out; or BUSY went low, or its
\* timeout passed, and sendCommand returns
WdtSend ==
    /\ wdt.mq <= WDT_TIMEOUT
    /\ \/ /\ wdt.pc = "take" /\ wdt.wait > 0
          /\ wdt' = [wdt EXCEPT !.pc = "busy", !.wait = 1]
       \/ /\ wdt.pc = "take" /\ wdt.wait = 0
          /\ wdt' = [wdt EXCEPT !.pc = "retry"]
       \/ /\ wdt.pc = "busy"
          /\ wdt' = [wdt EXCEPT !.pc = "retry", !.wait = 0]
    /\ UNCHANGED <<regVars, rxVars, mqVars, cmdVars, radioVars, now, boot, codec,
                   txAck, dbManager, lookup, histVars, lastClean, lastPublish>>

\* one second passes while mqttTask is blocked; loraRxTask has no
\* esp_task_wdt_reset and is not subscribed, so its time only grows (kept up
\* to one past the timeout)
WdtSecond ==
    /\ wdt.wait > 0 /\ wdt.mq <= WDT_TIMEOUT
    /\ wdt' = [wdt EXCEPT !.wait = @ - 1, !.mq = @ + 1,
                          !.rx = IF @ > WDT_TIMEOUT THEN @ ELSE @ + 1]
    /\ UNCHANGED <<regVars, rxVars, mqVars, cmdVars, radioVars, now, boot, codec,
                   txAck, dbManager, lookup, histVars, lastClean, lastPublish>>

\* esp_task_wdt_init(WDT_TIMEOUT, true): a subscribed task that has not reset
\* the watchdog for WDT_TIMEOUT seconds makes the chip panic, which ends the run
WdtPanic ==
    /\ wdt.mq > WDT_TIMEOUT /\ wdt.pc # "panic"
    /\ wdt' = [wdt EXCEPT !.pc = "panic", !.wait = 0]
    /\ UNCHANGED <<regVars, rxVars, mqVars, cmdVars, radioVars, now, boot, codec,
                   txAck, dbManager, lookup, histVars, lastClean, lastPublish>>

(* ------------------------ registry lookups ----------------------------- *)
\* getDeviceName(deviceId), one whole call: the name of the record, or the
\* default name after addDevice(deviceId, defaultName, "Unknown") and its
\* saveRegistry
LookupName(deviceId, saved) ==
    LET i == FindDevice(devices, deviceId)
    IN  /\ lookup' = [fn |-> "getDeviceName", deviceId |-> deviceId,
                      ret |-> IF i # 0 THEN devices[i].deviceName
                              ELSE DefaultName(deviceId)]
        /\ devices' = IF i # 0 THEN devices
                      ELSE addDevice(devices, deviceId, DefaultName(deviceId),
                                     "Unknown", now)
        /\ registryFile' = IF devices' # devices /\ saved THEN SaveDoc(devices')
                           ELSE registryFile
        /\ committed' = devices'
        /\ UNCHANGED <<registryMutex, rxVars, mqVars, cmdVars, radioVars, now, boot,
                       codec, txAck, dbManager, wdt, recent, lastDecision, lastObs,
                       snapOk, snapDuring, ringTag, lastClear, lastClean, lastPublish>>

\* getDeviceLocation(deviceId), one whole call: the location of the record,
\* or "Unknown"
LookupLocation(deviceId) ==
    LET i == FindDevice(devices, deviceId)
    IN  /\ lookup' = [fn |-> "getDeviceLocation", deviceId |-> deviceId,
                      ret |-> IF i # 0 THEN devices[i].location ELSE "Unknown"]
        /\ UNCHANGED <<regVars, rxVars, mqVars, cmdVars, radioVars, now, boot, codec,
                       txAck, dbManager, wdt, histVars, lastClean, lastPublish>>

(* ------------------------------- clock --------------------------------- *)
Elapsed == (now - boot) % MILLIS_WRAP

\* millis() advances
Tick ==
    /\ Elapsed < MaxTicks * TickLen
    /\ now' = (now + TickLen) % MILLIS_WRAP
    /\ UNCHANGED <<regVars, rxVars, mqVars, cmdVars, radioVars, boot, codec, txAck, dbManager, wdt, lookup, lastClean, lastPublish, histVars>>

(* --------------------------- specifications ---------------------------- *)
\* registry, receive pipeline and publish pipeline; no command is ever queued
NextReg ==
    \/ RxStep
    \/ MqPublishStep
    \/ MqUpdateName
    \/ MqClear
    \/ WebSnapshot

SpecReg == Init /\ [][NextReg]_vars

\* READINGS frames of the command targets
CmdFrames ==
    {MkFrame(1, 1, "READINGS", ""), MkFrame(1, EMPTY_SEQ, "READINGS", ""),
     MkFrame(2, 1, "READINGS", "")}

\* one pass of loraRxTask taken as one step: readData, the length and header
\* checks pass, isDuplicate, updateDeviceInfo (with addDevice and saveRegistry
\* for a new device), xQueueSend, sendAck, startReceive. A duplicate leaves
\* the radio in standby
RxAccept(f, rssi, snr) ==
    /\ rxPc = "idle"
    /\ packetsReceived < MaxFrames
    /\ LOCK_REGISTRY(registryMutex)
    /\ packetsReceived' = packetsReceived + 1
    /\ LET pkt == [kind |-> f.kind, deviceId |-> f.deviceId,
                   sequenceNum |-> f.sequenceNum, name |-> f.name,
                   header |-> f.header,
                   rssi |-> rssi, snr |-> snr, timestamp |-> now]
           i == FindDevice(devices, f.deviceId)
           added == addDevice(devices, f.deviceId, DefaultName(f.deviceId),
                              "Unknown", now)
           devs == IF i # 0 THEN devices ELSE added
           idx == IF i # 0 THEN i ELSE Len(devs)
       IN IF isDuplicate(devices, f.deviceId, f.sequenceNum)
          THEN /\ duplicatesFiltered' = duplicatesFiltered + 1
               /\ radioState' = "STANDBY"
               /\ UNCHANGED <<devices, registryFile, rxPacketQueue,
                              packetsDropped, committed>>
          ELSE /\ devices' = UpdateSequence(UpdateMetrics(devs, idx, now, rssi, snr),
                                            idx, f.sequenceNum)
               /\ registryFile' = IF devs # devices THEN SaveDoc(devs) ELSE registryFile
               /\ committed' = devices'
               /\ radioState' = "RX"
               /\ IF Len(rxPacketQueue) < RX_QUEUE_LEN
                  THEN rxPacketQueue' = Append(rxPacketQueue, pkt)
                       /\ UNCHANGED packetsDropped
                  ELSE packetsDropped' = packetsDropped + 1
                       /\ UNCHANGED rxPacketQueue
               /\ UNCHANGED duplicatesFiltered
    /\ UNCHANGED <<rxLen, registryMutex, rxPc, rxPkt, rxIdx, rxDoc, mqVars, cmdVars, boot, codec, txAck, dbManager, wdt, lookup, lastClean, lastPublish,
                   radioMutex, transmitting, now, recent, lastDecision, lastObs, snapOk,
                   snapDuring, ringTag, lastClear>>

\* millis() when the examined run begins: right after setup(), or 49.7 days
\* of idling later, one tick before the counter wraps
StartTimes == {0, MILLIS_WRAP - TickLen}

\* a gateway without a stored registry, and nothing queued
InitCmd ==
    /\ boot \in StartTimes /\ now = boot /\ InitBase /\ registryFile = <<>>
    /\ codec = [stage |-> "none"]

\* the command queue with its two producers, the MQTT callback and the
\* /api/command handler; no frame arrives
NextQueue ==
    \/ Tick
    \/ \E c \in CmdInputs : MqCallback(c)
    \/ MqCallbackDone
    \/ \E c \in CmdInputs : WebCommand(c)
    \/ WebCommandDone
    \/ \E t \in QueueCallers : QueueStep(t)
    \/ \E t \in QueueCallers : SendStep(t)

SpecQueue == InitCmd /\ [][NextQueue]_vars

\* the commands of the retry runs: two for device 1, so that one call of
\* retryCommandsForSensor walks over two entries of its device, one for device 2
RetryCmds ==
    {MkCommand(1, CMD_SET_INTERVAL, <<57, 48>>), MkCommand(1, CMD_RESTART, <<>>),
     MkCommand(2, CMD_RESTART, <<>>)}

\* the MQTT task alone on the command queue: commands arrive by MQTT, frames
\* of the targets start retryCommandsForSensor
NextRetry ==
    \/ Tick
    \/ \E f \in CmdFrames, rssi \in RssiValues, snr \in SnrValues : RxAccept(f, rssi, snr)
    \/ MqReceive
    \/ MqRetryClean
    \/ MqRetryNext
    \/ MqRetrySent
    \/ MqGetName
    \/ (\E ok \in BOOLEAN : MqPublish(ok))
    \/ \E c \in RetryCmds : MqCallback(c)
    \/ MqCallbackDone
    \/ QueueStep("mqtt")
    \/ SendStepAlone("mqtt")

SpecRetry == InitCmd /\ [][NextRetry]_vars

\* one command, sent over and again
RadioCmds == {MkCommand(1, CMD_RESTART, <<>>)}

\* the callers of sendCommand taken here: the MQTT task (callback and retry)
\* and the serial console
RadioSenders == {"mqtt", "serial"}

\* expiry under a scheduled MQTT task: one command for device 1, frames of
\* both devices, the clock
NextExpiry ==
    \/ Tick
    \/ \E f \in CmdFrames, rssi \in RssiValues, snr \in SnrValues : RxAccept(f, rssi, snr)
    \/ MqReceive
    \/ MqRetryClean
    \/ MqRetryNext
    \/ MqRetrySent
    \/ MqGetName
    \/ (\E ok \in BOOLEAN : MqPublish(ok))
    \/ \E c \in RadioCmds : MqCallback(c)
    \/ MqCallbackDone
    \/ QueueStep("mqtt")
    \/ SendStepAlone("mqtt")

\* mqttTask never stops in the middle of its loop, and every iteration of the
\* loop polls the packet queue (xQueueReceive) however many commands arrive;
\* frames, commands and the clock are left to the environment
SpecExpiry ==
    /\ InitCmd /\ [][NextExpiry]_vars
    /\ WF_vars(\/ MqRetryClean \/ MqRetryNext \/ MqRetrySent \/ MqGetName
               \/ (\E ok \in BOOLEAN : MqPublish(ok)) \/ MqCallbackDone \/ QueueStep("mqtt")
               \/ SendStepAlone("mqtt"))
    /\ SF_vars(MqReceive)

\* the tasks that transmit: the receive task (ACK) and the RadioSenders
NextRadio ==
    \/ \E f \in CmdFrames, rssi \in RssiValues, snr \in SnrValues : RxRead(f, rssi, snr)
    \/ RxReadError
    \/ RxIsDuplicate
    \/ RxUpdateFind
    \/ RxAddDevice
    \/ RxSaveBuild
    \/ \E ok \in SaveOutcomes : RxSaveWrite(ok)
    \/ RxRelock
    \/ RxUpdMetrics
    \/ RxUpdRing
    \/ RxEnqueue
    \/ RxEnqueueTimeout
    \/ RxAckTransmit
    \/ RxAckDone
    \/ RxStartReceive
    \/ MqReceive
    \/ MqRetryClean
    \/ MqRetryNext
    \/ MqRetrySent
    \/ MqGetName
    \/ (\E ok \in BOOLEAN : MqPublish(ok))
    \/ \E c \in RadioCmds : MqCallback(c)
    \/ MqCallbackDone
    \/ QueueStep("mqtt")
    \/ \E t \in RadioSenders : SendStep(t)
    \/ \E d \in {1} : SerialCommand(d)
    \/ SerialDone

SpecRadio == Init /\ [][NextRadio]_vars

\* command documents at and around the limits of the action table, and one
\* parameter-less action
IngressInputs ==
    {Json(1, "set_interval", TRUE, v) : v \in {4, 5, 3600, 3601}}
    \cup {Json(1, "set_sleep", TRUE, 3601), Json(2, "set_baseline", TRUE, 899),
          Json(2, "restart", FALSE, 0)}

\* mqttCallback on a document of lora/command
MqttJsonCommand(j) ==
    /\ mqttCommand(j).ok
    /\ MqCallback(mqttCommand(j).cmd)

\* the /api/command handler on a posted document
WebJsonCommand(j) ==
    /\ webCommand(j).ok
    /\ WebCommand(webCommand(j).cmd)

\* command documents arrive on both surfaces and pass through the queue
NextIngress ==
    \/ \E j \in IngressInputs : MqttJsonCommand(j)
    \/ MqCallbackDone
    \/ \E j \in IngressInputs : WebJsonCommand(j)
    \/ WebCommandDone
    \/ \E t \in QueueCallers : QueueStep(t)
    \/ \E t \in QueueCallers : SendStep(t)

SpecIngress == InitCmd /\ [][NextIngress]_vars

\* the command codec alone: handler, sendCommand's packet, the receive path
NextCodec ==
    \/ CodecHandle
    \/ CodecBuild
    \/ \E stackByte \in {0, 255} : CodecDecode(stackByte)

SpecCodec == InitCodec /\ [][NextCodec]_vars

\* the database manager taken alone: documents arrive while the sidecar
\* comes and goes
InitDb == Init /\ registryFile = <<>>

NextDb ==
    \/ \E endpoint \in {"/devices", "/commands", "/events"}, posted \in BOOLEAN :
          DbWrite(endpoint, posted)
    \/ \E nPosted \in 0..MaxProcessed, failed \in BOOLEAN, healthy \in BOOLEAN :
          DbLoop(nPosted, failed, healthy)

SpecDb == InitDb /\ [][NextDb]_vars

\* the watchdog taken alone: the MQTT task's loop against the clock
NextWdt ==
    \/ \E got \in BOOLEAN, n \in 0..MaxRetries : WdtMqLoop(got, n)
    \/ WdtMqRetry
    \/ WdtSend
    \/ WdtSecond
    \/ WdtPanic

SpecWdt == InitDb /\ [][NextWdt]_vars

\* the two lookups of the registry taken alone, called for any device
NextLookup ==
    \/ \E deviceId \in DeviceIds, saved \in BOOLEAN : LookupName(deviceId, saved)
    \/ \E deviceId \in DeviceIds : LookupLocation(deviceId)

SpecLookup == Init /\ [][NextLookup]_vars

(* ------------------------- deduplication (C1) -------------------------- *)
\* C1: a validated frame (d, s) whose sequence number is among the last
\* DEDUP_BUFFER_SIZE frames accepted from d since the last clear of d's ring is
\* answered "duplicate" by the receive task, whether or not d has a record.
C1_DuplicatesFiltered ==
    (lastDecision.kind = "checked" /\ lastDecision.inRecent) => lastDecision.dup

(* ------------------------ registry at capacity (C5) -------------------- *)
\* C5: with the registry full, the steps by which the receive task handles a
\* validated frame of a device that has no record change no record.
C5_FullRegistryKeepsRecords ==
    [][(/\ rxPc \in RxObserving
        /\ rxPc' # rxPc
        /\ Len(devices) >= MAX_SENSORS
        /\ FindDevice(devices, rxPkt.deviceId) = 0) => devices' = devices]_vars

(* ---------------------- reset at STARTUP (C6) -------------------------- *)
\* C6: once the receive task has handled a STARTUP frame of d, no later frame
\* of d is checked against a ring that still holds a sequence number recorded
\* before that frame, and the reset erases no sequence number recorded after it.
C6_AtomicReset ==
    /\ lastDecision.kind = "checked" => ~lastDecision.stale
    /\ lastClear.kind = "cleared" => ~lastClear.erasedNew

(* --------------------------- snapshot (C9) ----------------------------- *)
\* C9: every document getDeviceRegistrySnapshot built equals the registry as
\* it stood when the registry mutex was last free, and each of its records
\* shows last-seen, RSSI, SNR, packet count and last sequence of one call of
\* updateDeviceInfo (or the values a record has before its first one).
C9_SnapshotConsistent == snapOk

\* a snapshot of a registry with records was built while the receive task
\* is inside updateDeviceInfo, between adding a device and recording the frame
C9_Witness ==
    /\ snapOk
    /\ snapDuring = "observing"
    /\ rxPc \in RxObserving
    /\ \E i \in 1..Len(devices) : lastObs[i] # NoObs

(* ------------------------ sequence wrap-around (C10) ------------------- *)
\* C10: sequence number 0 is answered "duplicate" only if a frame with
\* sequence number 0 is among the last DEDUP_BUFFER_SIZE accepted from the
\* device; the same for every sequence number but the sentinel 0xFFFF.
C10_DuplicateOnlyIfObserved ==
    (/\ lastDecision.kind = "checked"
     /\ lastDecision.dup
     /\ lastDecision.sequenceNum # EMPTY_SEQ) => lastDecision.inRecent


(* ------------------------ clearing the ring (C11) ---------------------- *)

\* C11: right after clearDuplicationBuffer(d) for a device d that has a
\* record, isDuplicate(d, s) is false for every sequence number s but 0xFFFF
\* (those the rings held and those the sensors send), the write index of d is
\* 0, and ring and write index of every other record are as they were.
C11_ClearMakesFresh ==
    [][(/\ mqPc = "clear"
        /\ mqPc' # "clear"
        /\ FindDevice(devices, mqPkt.deviceId) # 0) =>
          LET d == mqPkt.deviceId
              i == FindDevice(devices', d)
              \* the sequence numbers held by the rings of the registry
              RingValues ==
                  {devices[k].sequenceBuffer[j] : k \in 1..Len(devices), j \in Slots}
          IN /\ i # 0
             /\ \A s \in (SeqNums \cup RingValues) \ {EMPTY_SEQ} :
                    ~isDuplicate(devices', d, s)
             /\ devices'[i].bufferIndex = 0
             /\ Len(devices') = Len(devices)
             /\ \A k \in 1..Len(devices) :
                    k # i => /\ devices'[k].sequenceBuffer = devices[k].sequenceBuffer
                             /\ devices'[k].bufferIndex = devices[k].bufferIndex]_vars

\* the ring of a device was just cleared while another record holds a
\* sequence number written by the receive task
C11_Witness ==
    /\ mqPc = "getName"
    /\ mqPkt.kind = "EVENT_STARTUP"
    /\ lastClear.kind = "cleared"
    /\ LET i == FindDevice(devices, mqPkt.deviceId)
       IN /\ i # 0
          /\ \A j \in Slots : devices[i].sequenceBuffer[j] = EMPTY_SEQ
          /\ \E k \in 1..Len(devices), j \in Slots :
                k # i /\ ringTag[k][j] # "init" /\ devices[k].sequenceBuffer[j] # 0

(* --------------------- contents of the ring (C12) ---------------------- *)
\* C12: every slot of the ring of a record holds 0xFFFF or a sequence number
\* that is among the last DEDUP_BUFFER_SIZE frames accepted from the device
\* of that record, and the write index is within the ring.
C12_RingHoldsObserved ==
    \A i \in 1..Len(devices) :
        /\ devices[i].bufferIndex \in Slots
        /\ \A j \in Slots :
              \/ devices[i].sequenceBuffer[j] = EMPTY_SEQ
              \/ devices[i].sequenceBuffer[j] \in Range(recent[devices[i].deviceId])

(* ------------------------ frame validation (C13) ----------------------- *)

\* C13: the receive task adds or updates a record only for a frame that is at
\* least as long as a header and whose magic, version and checksum are right,
\* and the step that rejects a frame leaves the registry as it is.
C13_OnlyCheckedFramesUpdate ==
    [][LET \* the steps of the receive task between the checks and the enqueue
           RxUpdates == rxPc \in RxObserving /\ rxPc' # rxPc
           \* at least a header was received, with the magic bytes, the
           \* version and a checksum byte that is the XOR of the fifteen
           \* bytes before it
           PassedChecks(h, packetLen) ==
               /\ packetLen >= HeaderSize
               /\ h.magic[1] = LORA_MAGIC_BYTE_1 /\ h.magic[2] = LORA_MAGIC_BYTE_2
               /\ h.version = LORA_PROTOCOL_VERSION
               /\ h.checksum = XorBytes(HeaderBytes(h), HeaderSize - 1)
       IN  /\ (RxUpdates /\ devices' # devices) =>
                 PassedChecks(rxPkt.header, rxLen)
           /\ (rxPc = "idle" /\ packetsDropped' # packetsDropped) =>
                 (devices' = devices /\ registryFile' = registryFile)]_vars

\* a frame was rejected, and the record of a later frame has been updated
C13_Witness ==
    /\ packetsDropped > 0
    /\ rxPc = "enqueue"
    /\ rxLen >= HeaderSize
    /\ FindDevice(devices, rxPkt.deviceId) # 0
    /\ devices[FindDevice(devices, rxPkt.deviceId)].lastSequence = rxPkt.sequenceNum

(* ------------------------ truncated frames (C14) ----------------------- *)

\* C14: the receive task does nothing with a frame whose declared payload
\* length plus header size exceeds the bytes received: no step of it on such
\* a frame changes the registry, the decoded-record queue or the transmitter.
C14_TruncatedRejected ==
    [][(/\ rxPkt # NoPkt
        /\ rxPkt.header.payloadLen + HeaderSize > rxLen
        /\ rxPc' # rxPc) =>
          /\ devices' = devices
          /\ rxPacketQueue' = rxPacketQueue
          /\ transmitting' = transmitting]_vars

(* ------------------------ order of publishing (C18) ------------------- *)

\* C18: the decoded-record queue holds the accepted frames in the order they
\* were received, and the MQTT task starts on a packet only when it is done
\* with the one before, taking the packet received earliest: every packet
\* still queued, and the one the receive task holds, was received later.
C18_PublishedInOrder ==
    [][/\ \A i, j \in 1..Len(rxPacketQueue') :
             i < j => rxPacketQueue'[i].timestamp < rxPacketQueue'[j].timestamp
       /\ (mqPkt' # mqPkt /\ mqPkt' # NoPkt) =>
             /\ mqPc = "idle"
             /\ mqPkt' = Head(rxPacketQueue)
             /\ \A k \in 1..Len(rxPacketQueue') :
                    mqPkt'.timestamp < rxPacketQueue'[k].timestamp
             /\ rxPkt # NoPkt => mqPkt'.timestamp <= rxPkt.timestamp]_vars

\* the MQTT task is publishing a packet while the queue is full of packets
\* received after it
C18_Witness ==
    /\ mqPc = "publish"
    /\ mqPkt # NoPkt
    /\ Len(rxPacketQueue) = RX_QUEUE_LEN
    /\ Len(rxPacketQueue) >= 2

(* ------------------------ command validation (C15) --------------------- *)
\* C15: a command enters the command queue only with a value inside the range
\* of the action table: set_interval 5..3600, set_sleep 0..3600, set_baseline
\* 900..1100, whether it came from the broker or from the admin surface.
\* The value of an entry is read back from its ASCII parameter bytes, in
\* hundredths so that "900.00" and "900" compare alike.
C15_QueuedValuesInRange ==
    \A k \in 1..Len(commandQueue) :
        LET e == commandQueue[k]
            Digits(b) ==
                LET F[i \in 0..Len(b)] ==
                        IF i = 0 THEN 0 ELSE 10 * F[i - 1] + (b[i] - 48)
                IN  F[Len(b)]
            Dots(b) == {i \in 1..Len(b) : b[i] = 46}
            Hundredths(b) ==
                IF Dots(b) = {} THEN 100 * Digits(b)
                ELSE LET i == CHOOSE x \in Dots(b) : TRUE
                     IN  100 * Digits(SubSeq(b, 1, i - 1))
                         + Digits(SubSeq(b, i + 1, Len(b)))
        IN  /\ e.cmdType = CMD_SET_INTERVAL =>
                Hundredths(e.params) \in (5 * 100)..(3600 * 100)
            /\ e.cmdType = CMD_SET_SLEEP =>
                Hundredths(e.params) \in 0..(3600 * 100)
            /\ e.cmdType = CMD_SET_BASELINE =>
                Hundredths(e.params) \in (900 * 100)..(1100 * 100)

(* ------------------------- command frames (C16) ------------------------ *)
\* C16: a command document with a recognized action and, where the action
\* takes one, a value inside its range yields a frame whose payload is
\* cmdType, paramLen and the parameter bytes: cmdType as the action table
\* says, the parameter bytes the ASCII decimal digits of the value (with two
\* fraction digits for the decimal hPa of set_baseline) and no NUL, none for
\* an action without parameter; the header's payload length is 2 + paramLen.
C16_FrameMatchesTable ==
    LET j == codec.json
        Type ==
            [set_interval |-> 7, set_sleep |-> 6, restart |-> 4, status |-> 5,
             calibrate |-> 1, set_baseline |-> 2, clear_baseline |-> 3]
        Lo == [set_interval |-> 5, set_sleep |-> 0, set_baseline |-> 900]
        Hi == [set_interval |-> 3600, set_sleep |-> 3600, set_baseline |-> 1100]
        Valid ==
            \/ j.action \in {"restart", "status", "calibrate", "clear_baseline"}
            \/ /\ j.action \in {"set_interval", "set_sleep", "set_baseline"}
               /\ j.hasValue
               /\ j.value >= Lo[j.action] /\ j.value <= Hi[j.action]
        Width(v) == CHOOSE k \in 1..5 : v < 10^k /\ (k = 1 \/ v >= 10^(k - 1))
        Ascii(v) == [i \in 1..Width(v) |-> 48 + ((v \div 10^(Width(v) - i)) % 10)]
        Expected ==
            CASE j.action \in {"set_interval", "set_sleep"} -> Ascii(j.value)
              [] j.action = "set_baseline" -> Ascii(j.value) \o <<46, 48, 48>>
              [] OTHER -> <<>>
        header == ParseHeader(codec.packet)
        payload == SubSeq(codec.packet, HeaderSize + 1, Len(codec.packet))
    IN  (codec.stage \in {"packet", "decoded"} /\ "json" \in DOMAIN codec /\ Valid)
        => /\ payload = <<Type[j.action], Len(Expected)>> \o Expected
           /\ \A i \in 1..Len(Expected) : Expected[i] # 0
           /\ header.payloadLen = 2 + Len(Expected)
           /\ header.payloadLen = Len(payload)

\* set_interval 3600 for device 258 has become the frame payload
\* 0x07, 4, "3600" behind a header that declares 6 payload bytes
C16_Witness ==
    /\ codec.stage = "packet"
    /\ "json" \in DOMAIN codec
    /\ codec.json = Json(258, "set_interval", TRUE, 3600)
    /\ SubSeq(codec.packet, HeaderSize + 1, Len(codec.packet))
            = <<7, 4, 51, 54, 48, 48>>
    /\ ParseHeader(codec.packet).payloadLen = 6

(* ----------------------- encode and decode (C17) ----------------------- *)
\* C17: in every frame sendCommand builds with a payload of at most 238
\* bytes, for any target, sequence number and parameters, the last header
\* byte is the XOR of the header bytes before it; the receive path accepts the
\* frame and yields the header fields the encoder was given (COMMAND, target,
\* sequence number modulo 2^16, payload length) and the payload bytes sent.
C17_RoundTrip ==
    LET bytes == codec.packet
        XorOfFirst(n) ==
            LET F[k \in 0..n] == IF k = 0 THEN 0 ELSE Xor(F[k - 1], bytes[k])
            IN  F[n]
        sent == SubSeq(bytes, HeaderSize + 1, Len(bytes))
    IN  (codec.stage \in {"packet", "decoded", "dropped"}
         /\ Len(codec.packet) - HeaderSize <= 238)
        => /\ bytes[HeaderSize] = XorOfFirst(HeaderSize - 1)
           /\ codec.stage # "dropped"
           /\ codec.stage = "decoded" =>
                /\ codec.header.msgType = MsgTypeByte("COMMAND")
                /\ codec.header.deviceId = codec.cmd.sensorId
                /\ codec.header.sequenceNum = codec.seq % 65536
                /\ codec.header.payloadLen = 2 + codec.cmd.paramLen
                /\ codec.payload = sent
                /\ codec.payload
                     = <<codec.cmd.cmdType, codec.cmd.paramLen>> \o codec.cmd.params

\* a frame with the longest payload (238 bytes: 236 parameter bytes), target
\* 0x01020304 and sequence number 65535 has been decoded
C17_Witness ==
    /\ codec.stage = "decoded"
    /\ codec.cmd.paramLen = 236
    /\ codec.cmd.sensorId = 16909060
    /\ codec.seq = 65535
    /\ Len(codec.payload) = 238

(* ------------------------ radio transmissions (C2) --------------------- *)
\* C2: at no time are two tasks inside radio->transmit(): the receive task
\* sending an ACK, and the MQTT task, the web handler and the serial console
\* sending a command.
C2_OneTransmitAtATime == Cardinality(transmitting) <= 1

(* -------------------- release of the radio mutex (C19) ----------------- *)
\* C19: whenever the holder of the radio mutex gives it back, the radio is in
\* continuous receive: after a failed standby, after the BUSY timeout and
\* after a transmit that succeeded or failed.
C19_ReleasedInReceive ==
    [][(radioMutex # NoTask /\ radioMutex' = NoTask) => radioState' = "RX"]_vars

(* --------------------- radio operations (C20) -------------------------- *)
\* C20: every step that changes the state of the radio (readData, standby,
\* startReceive) or begins or ends a transmit is a step of the task that
\* holds the radio mutex; the frame read, the ACK and the receive restart of
\* the receive task included.
C20_RadioOpsByHolder ==
    [][(radioState' # radioState \/ transmitting' # transmitting) =>
          /\ radioMutex # NoTask
          /\ snd'[radioMutex] # snd[radioMutex]]_vars

(* ------------------------------- ACK (C22) ----------------------------- *)
\* C22: the receive task transmits an ACK for a frame exactly when the frame
\* passed the header validation, was not filtered as a duplicate and is of
\* type READINGS, STATUS or EVENT, and the ACK carries the frame's sequence
\* number: an ACK goes out only for such a frame, and the task is not done
\* with such a frame before its ACK went out.
C22_AckIffAccepted ==
    [][LET Acked(type) ==
               type \in {MsgTypeByte("READINGS"), MsgTypeByte("STATUS"),
                         MsgTypeByte("EVENT_OTHER")}
           Accepted ==
               /\ rxPkt # NoPkt
               /\ validateHeader(rxPkt.header)
               /\ lastDecision.kind = "checked" /\ ~lastDecision.dup
               /\ lastDecision.deviceId = rxPkt.deviceId
               /\ lastDecision.sequenceNum = rxPkt.sequenceNum
               /\ Acked(rxPkt.header.msgType)
       IN  /\ (txAck' # txAck /\ txAck'.sent) =>
                 /\ Accepted
                 /\ txAck'.ackSequenceNum = rxPkt.header.sequenceNum
           /\ (rxPc # "idle" /\ rxPc' = "idle") =>
                 IF rxPc # "isDuplicate" /\ Accepted
                 THEN txAck = AckPayload(rxPkt.header.sequenceNum)
                 ELSE ~txAck.sent
           /\ (rxPc = "idle" /\ rxPc' = "idle") => ~txAck'.sent]_vars

\* the ACK of a STATUS frame with sequence number 1 is in the air
C22_Witness ==
    /\ rxPc = "ackDone"
    /\ rxPkt.kind = "STATUS"
    /\ txAck = AckPayload(1)
    /\ "rx" \in transmitting

(* ----------------------- filtered duplicates (C23) --------------------- *)
\* C23: the receive task's handling of a frame that isDuplicate reports as a
\* duplicate adds one to the duplicates-filtered counter and leaves the
\* registry and its file, the decoded-record queue, what the MQTT task holds,
\* the dropped counter and the transmitter as they are, and sends no ACK; the
\* read of a frame that passes the header checks changes none of them either.
C23_DuplicateOnlyCounted ==
    [][LET Untouched ==
               /\ devices' = devices /\ registryFile' = registryFile
               /\ rxPacketQueue' = rxPacketQueue
               /\ mqPkt' = mqPkt /\ mqDoc' = mqDoc /\ mqPc' = mqPc
               /\ packetsDropped' = packetsDropped
               /\ transmitting' = transmitting /\ ~txAck'.sent
       IN  /\ (rxPc = "idle" /\ rxPc' = "isDuplicate") =>
                 (Untouched /\ duplicatesFiltered' = duplicatesFiltered)
           /\ (rxPc = "isDuplicate" /\ rxPc' # rxPc
               /\ isDuplicate(devices, rxPkt.deviceId, rxPkt.sequenceNum)) =>
                 /\ Untouched
                 /\ duplicatesFiltered' = duplicatesFiltered + 1
                 /\ rxPc' = "idle"]_vars

\* a frame of a registered device was filtered, with a packet still queued
C23_Witness ==
    /\ rxPc = "idle"
    /\ duplicatesFiltered = 1
    /\ lastDecision.kind = "checked" /\ lastDecision.dup
    /\ FindDevice(devices, lastDecision.deviceId) # 0
    /\ rxPacketQueue # <<>>

(* ------------------------ full packet queue (C24) ---------------------- *)
\* C24: when xQueueSend finds the decoded-record queue full for its whole
\* timeout, the frame is not enqueued, the dropped counter grows by one, and
\* the queued packets stay as they are; the queue changes only by a packet
\* appended behind the others when there is room, or by the MQTT task taking
\* the first.
C24_FullQueueDropsNewest ==
    [][/\ (/\ rxPc = "enqueue" /\ rxPc' # rxPc
           /\ Len(rxPacketQueue) >= RX_QUEUE_LEN) =>
                /\ rxPacketQueue' = rxPacketQueue
                /\ packetsDropped' = packetsDropped + 1
                /\ duplicatesFiltered' = duplicatesFiltered
       /\ rxPacketQueue' # rxPacketQueue =>
            \/ /\ rxPc = "enqueue"
               /\ Len(rxPacketQueue) < RX_QUEUE_LEN
               /\ rxPacketQueue' = Append(rxPacketQueue, rxPkt)
               /\ packetsDropped' = packetsDropped
            \/ /\ rxPacketQueue # <<>>
               /\ rxPacketQueue' = Tail(rxPacketQueue)
               /\ mqPkt' = Head(rxPacketQueue)]_vars

\* the queue is full of earlier packets, and the receive task goes on to the
\* ACK of a frame that is not among them and was counted as dropped
C24_Witness ==
    /\ rxPc = "sendAck"
    /\ Len(rxPacketQueue) = RX_QUEUE_LEN
    /\ \A k \in 1..Len(rxPacketQueue) :
          rxPacketQueue[k].timestamp < rxPkt.timestamp
    /\ packetsDropped >= 1

(* --------------------- STARTUP of any sequence (C26) ------------------- *)
\* C26: a STARTUP event with a valid header clears the ring of its device
\* whatever sequence number it carries: the receive task does not filter it
\* as a duplicate, and when the MQTT task handles it every slot of the
\* device's ring is set to 0xFFFF, so that a sequence number seen before the
\* startup is accepted again.
C26_StartupAlwaysClears ==
    [][/\ (rxPc = "isDuplicate" /\ rxPc' # rxPc /\ rxPkt.kind = "EVENT_STARTUP") =>
             rxPc' # "idle"
       /\ (mqPc = "clear" /\ mqPc' # mqPc) =>
             LET i == FindDevice(devices', mqPkt.deviceId)
             IN  i # 0 =>
                   \A s \in SeqNums \ {EMPTY_SEQ} :
                       ~isDuplicate(devices', mqPkt.deviceId, s)]_vars

C29_QueueBoundedDropOldest ==
    /\ [](Len(dbManager.writeQueue) <= MAX_QUEUE_SIZE)
    /\ [][LET q == dbManager.writeQueue
              r == dbManager'.writeQueue
          IN  (/\ dbManager'.writes = dbManager.writes + 1
               /\ dbManager.status # "DB_CONNECTED") =>
                 /\ Len(r) >= 1
                 /\ r[Len(r)].doc = dbManager'.writes
                 /\ SubSeq(r, 1, Len(r) - 1) =
                      IF Len(q) = MAX_QUEUE_SIZE THEN Tail(q) ELSE q
                 /\ Len(q) = MAX_QUEUE_SIZE =>
                      dbManager'.dropped = q[1].doc]_vars

\* a write met a full queue: the oldest document is gone, the new one is last
C29_Witness ==
    /\ dbManager.dropped # 0
    /\ Len(dbManager.writeQueue) = MAX_QUEUE_SIZE
    /\ dbManager.writeQueue[MAX_QUEUE_SIZE].doc = dbManager.writes
    /\ dbManager.writeQueue[1].doc > dbManager.dropped

(* --------------------------- watchdog (C30) ---------------------------- *)
\* C30: neither the MQTT task nor the LoRa RX task ever goes more than
\* WDT_TIMEOUT seconds without resetting the task watchdog, a packet followed
\* by the 3 s delay and a retry of every queued command of its device
\* included.
C30_ResetWithinTimeout ==
    /\ wdt.mq <= WDT_TIMEOUT
    /\ wdt.rx <= WDT_TIMEOUT

(* ------------------------ lookups auto-create (C31) -------------------- *)
\* C31: getDeviceName and getDeviceLocation, called for a device without a
\* record while the registry has room, each return the default value and
\* leave a record of the device with the default name and the default
\* location.
C31_LookupAutoCreates ==
    [][(/\ lookup' # lookup
        /\ FindDevice(devices, lookup'.deviceId) = 0
        /\ Len(devices) < MAX_SENSORS) =>
          LET i == FindDevice(devices', lookup'.deviceId)
          IN  /\ i # 0
              /\ devices'[i].deviceName = DefaultName(lookup'.deviceId)
              /\ devices'[i].location = "Unknown"
              /\ lookup'.ret = IF lookup'.fn = "getDeviceName"
                               THEN DefaultName(lookup'.deviceId)
                               ELSE "Unknown"]_vars

C33_IdleMeansReceiving ==
    rxPc = "idle" => radioState = "RX"

(* ---------------- transmission at enqueue (C34, C35) -------------------- *)
\* C34: every queueCommand that returns true, for a new entry or for an
\* update of a queued (target, type) pair, has called sendCommand once for the
\* command and returns true whatever sendCommand returned.
C34_SuccessMeansOneAttempt ==
    [][\A t \in QueueCallers :
          (qc[t].pc \in {"check", "write", "send"} /\ qc'[t].pc = "ret"
           /\ qc'[t].result) =>
             /\ qc[t].pc = "send"
             /\ snd[t].pc = "ret"]_vars

C36_MutexGivenOnReturn ==
    [][\A t \in Senders :
          /\ snd[t].pc \in {"standby", "transmit", "txdone"} => radioMutex = t
          /\ (snd[t].pc # "ret" /\ snd'[t].pc = "ret") =>
                IF radioMutex = t
                THEN radioMutex' = NoTask
                ELSE snd[t].pc = "take" /\ radioMutex' = radioMutex
          /\ (radioMutex = t /\ radioMutex' # t) =>
                radioMutex' = NoTask /\ snd'[t].pc = "ret"
          /\ snd'[t].pc \in {"ret", "none"} => radioMutex' # t]_vars

\* the console's sendCommand has transmitted and returned, and the MQTT task
\* has taken the mutex it gave
C36_Witness ==
    /\ snd["serial"].pc = "ret" /\ snd["serial"].result
    /\ radioMutex = "mqtt"
    /\ snd["mqtt"].pc = "standby"

(* ------------------- one call of the retry loop (C37, C38) ------------- *)
\* C37: when the loop of retryCommandsForSensor ends, the entries it called
\* sendCommand for are, one time each and in their order, the entries of the
\* packet's device that its cleanExpiredCommands had kept; removals and the
\* shifting down of later entries make it skip none and repeat none.
C37_EachTargetEntryOnce ==
    [][(mqPc = "retryLoop" /\ mqPc' \notin {"retryLoop", "retrySend"}) =>
          lastClean.tried =
             SelectSeq(lastClean.start, LAMBDA e : e.sensorId = mqPkt.deviceId)]_vars

\* two entries of the device were queued; the first was sent and removed, and
\* the second, shifted down to its place, is being sent
C37_Witness ==
    /\ mqPc = "retrySend" /\ mqI = 1
    /\ Len(lastClean.start) = 2 /\ Len(lastClean.tried) = 2
    /\ Len(commandQueue) = 1
    /\ commandQueue[1].cmdType = lastClean.start[2].cmdType

C39_DequeuedOncePublishedOnce ==
    [][/\ (mqPkt' # mqPkt /\ mqPkt' # NoPkt) =>
             /\ mqPc = "idle"
             /\ mqPkt' = Head(rxPacketQueue)
             /\ rxPacketQueue' = Tail(rxPacketQueue)
       /\ mqPkt' # NoPkt => lastPublish' = "none"
       /\ (lastPublish' # lastPublish /\ lastPublish' # "none") =>
             /\ lastPublish = "none"
             /\ mqPkt # NoPkt
             /\ mqPkt' = NoPkt
             /\ mqPc' = "idle"
             /\ rxPacketQueue' = rxPacketQueue
       /\ rxPacketQueue' # rxPacketQueue =>
             \/ /\ rxPacketQueue # <<>>
                /\ rxPacketQueue' = Tail(rxPacketQueue)
                /\ mqPkt' = Head(rxPacketQueue)
             \/ LET new == rxPacketQueue'[Len(rxPacketQueue')]
                IN  /\ rxPacketQueue' = Append(rxPacketQueue, new)
                    /\ mqPkt' = mqPkt
                    /\ lastPublish' = lastPublish
                    /\ mqPkt # NoPkt => mqPkt.timestamp < new.timestamp
                    /\ \A k \in 1..Len(rxPacketQueue) :
                           rxPacketQueue[k].timestamp < new.timestamp]_vars

\* the broker did not take the record published last: the MQTT task is idle
\* without it, and the queue holds only records received after it was taken
C39_Witness ==
    /\ lastPublish = "failed"
    /\ mqPc = "idle"
    /\ mqPkt = NoPkt
    /\ rxPacketQueue # <<>>

(* ------------------- concurrent saves of the registry (C40) ------------ *)

\* C40: once the registry mutations of the receive task (device add) and of
\* the publish task (name update, device add of getDeviceName) have completed
\* with their saves, /sensor_registry.json lists the same devices, names and
\* locations as the in-memory registry: no save built from an older registry
\* has overwritten one built from a newer. A boot file with more records than
\* MAX_SENSORS that was never rewritten is left aside.
C40_FileMatchesRegistry ==
    (/\ rxPc \notin {"saveBuild", "saveWrite"}
     /\ mqPc \notin {"saveBuild", "saveWrite"}
     /\ Len(registryFile) <= MAX_SENSORS) =>
        /\ Len(registryFile) = Len(devices)
        /\ \A i \in 1..Len(devices) :
              /\ registryFile[i].id = devices[i].deviceId
              /\ registryFile[i].name = devices[i].deviceName
              /\ registryFile[i].location = devices[i].location

(* ----------------------- radio mutex timeout (C21) --------------------- *)
\* C21: a sendCommand that does not get the radio mutex returns false without
\* any radio operation; the queued command whose retry failed stays in the
\* queue with its type and parameters, and every pass of a later
\* retryCommandsForSensor over an entry of the frame's device attempts it.
C21_TimeoutKeepsCommand ==
    [][/\ \A t \in Senders :
             (snd[t].pc = "take" /\ radioMutex # NoTask /\ snd'[t] # snd[t]) =>
                /\ snd'[t] = [pc |-> "ret", result |-> FALSE]
                /\ UNCHANGED <<radioMutex, radioState, transmitting>>
       /\ (mqPc = "retrySend" /\ mqPc' # mqPc /\ ~snd["mqtt"].result) =>
                /\ commandQueue' = commandQueue
                /\ mqI' = mqI + 1
       /\ (/\ mqPc = "retryLoop" /\ mqI <= Len(commandQueue)
           /\ commandQueue[mqI].sensorId = mqPkt.deviceId
           /\ <<mqPc, mqI, commandQueue>>' # <<mqPc, mqI, commandQueue>>) =>
                /\ snd'["mqtt"] = SendCall(commandQueue[mqI])
                /\ commandQueue'[mqI].retryCount
                        = (commandQueue[mqI].retryCount + 1) % 256]_vars

\* the console holds the radio mutex in its transmit, the sendCommand of a
\* retry has returned false, and the entry, attempted for at least the second
\* time, is still queued
C21_Witness ==
    /\ mqPc = "retrySend"
    /\ snd["mqtt"] = [pc |-> "ret", result |-> FALSE]
    /\ radioMutex = "serial"
    /\ mqI <= Len(commandQueue)
    /\ commandQueue[mqI].sensorId = mqPkt.deviceId
    /\ commandQueue[mqI].retryCount >= 2

(* ------------------------ what starts a retry (C25) -------------------- *)
\* C25: the retry counter of a queued command for device X grows, and
\* sendCommand is called for a command already queued for X, only in a step of
\* retryCommandsForSensor while the MQTT task holds a packet received from X;
\* no step of the clock and no packet of another device does either.
C25_RetryOnlyOnTraffic ==
    [][/\ \A k \in 1..Len(commandQueue) :
            (/\ Len(commandQueue') = Len(commandQueue)
             /\ commandQueue'[k].retryCount # commandQueue[k].retryCount
             /\ commandQueue'[k].retryCount # 0) =>
                /\ mqPc = "retryLoop" /\ mqI = k
                /\ mqPkt # NoPkt
                /\ mqPkt.deviceId = commandQueue[k].sensorId
                /\ commandQueue'[k].retryCount = commandQueue[k].retryCount + 1
                /\ snd'["mqtt"] = SendCall(commandQueue[k])
       /\ \A t \in Senders :
            (snd[t] = NoCall /\ snd'[t] # NoCall) =>
                \/ /\ t \in QueueCallers
                   /\ qc[t].pc = "write"
                   /\ Len(commandQueue') = Len(commandQueue) + 1
                \/ /\ t = "mqtt" /\ mqPc = "retryLoop"
                   /\ mqPkt # NoPkt
                   /\ snd'[t].sensorId = mqPkt.deviceId
                \/ t = "serial"
       /\ now' # now => (snd' = snd /\ commandQueue' = commandQueue)]_vars

\* with commands queued for both devices, the one for device 2 is retried for
\* a packet of device 2 while the one for device 1 has not been retried
C25_Witness ==
    /\ mqPc = "retrySend"
    /\ mqPkt.deviceId = 2
    /\ Len(commandQueue) = 2
    /\ \E k \in 1..2 : commandQueue[k].sensorId = 1 /\ commandQueue[k].retryCount = 0
    /\ commandQueue[mqI].sensorId = 2 /\ commandQueue[mqI].retryCount = 1

(* ------------------------ outcome of a retry (C27) --------------------- *)
\* C27: in retryCommandsForSensor for device X, past the removal of expired
\* commands, an entry leaves the queue exactly when the sendCommand for it in
\* this call returned true; an entry whose sendCommand returned false stays
\* with its type and parameters and a retry counter one higher than before,
\* and the call ends only after every entry of X left in the queue was
\* attempted, as does every later call for a frame of X.
C27_RemovedIffSent ==
    [][LET q == commandQueue
           Mine(k) == q[k].sensorId = mqPkt.deviceId
       IN  /\ (mqPc = "retrySend" /\ mqPc' # mqPc) =>
                 /\ Mine(mqI)
                 /\ IF snd["mqtt"].result
                    THEN commandQueue' = SubSeq(q, 1, mqI - 1) \o SubSeq(q, mqI + 1, Len(q))
                    ELSE /\ commandQueue' = q
                         /\ q[mqI].retryCount >= 1
           /\ (mqPc = "retryLoop" /\ commandQueue' # q) =>
                 /\ Mine(mqI)
                 /\ commandQueue' =
                       [q EXCEPT ![mqI].retryCount = (q[mqI].retryCount + 1) % 256]
                 /\ snd'["mqtt"] = SendCall(q[mqI])
           /\ (mqPc = "retryLoop" /\ mqPc' \notin {"retryLoop", "retrySend"}) =>
                 /\ commandQueue' = q
                 /\ \A k \in 1..Len(q) : Mine(k) => q[k].retryCount >= 1]_vars

\* both commands for device 1 were queued; the restart was sent and removed,
\* set_interval failed before and is attempted for the second time, now as
\* the only entry
C27_Witness ==
    /\ mqPc = "retrySend"
    /\ mqPkt.deviceId = 1
    /\ Len(commandQueue) = 1 /\ mqI = 1
    /\ commandQueue[1].sensorId = 1
    /\ commandQueue[1].cmdType = CMD_SET_INTERVAL
    /\ commandQueue[1].retryCount = 2
    /\ snd["mqtt"].pc = "take"

(* --------------------------- command queue ----------------------------- *)
\* C3: the queue never holds two entries of one (target, type) pair, and when
\* queueCommand is called for a pair that is queued, the entry then carries
\* the parameter bytes and length of that call, retry counter 0 and the
\* current time as its enqueue time.
C3_OneEntryLatestParams ==
    [][/\ \A i, j \in 1..Len(commandQueue') :
             i # j => ~(/\ commandQueue'[i].sensorId = commandQueue'[j].sensorId
                        /\ commandQueue'[i].cmdType = commandQueue'[j].cmdType)
       /\ \A t \in QueueCallers :
             LET found == FindQueued(commandQueue, qc[t].cmd.sensorId,
                                     qc[t].cmd.cmdType)
             IN  \* task t leaves the head of queueCommand in this step
                 (qc[t].pc = "check" /\ qc'[t].pc # "check" /\ found # 0) =>
                    LET e == commandQueue'[found]
                    IN /\ e.params = qc[t].cmd.params
                       /\ e.paramLen = qc[t].cmd.paramLen
                       /\ e.retryCount = 0
                       /\ e.queuedAt = now]_vars

\* C7: with MAX_QUEUED_COMMANDS entries queued, queueCommand for a pair that
\* is not queued returns false and leaves the queue as it is, and queueCommand
\* for a pair that is queued returns true and updates that entry.
C7_FullQueueEnqueue ==
    [][\A t \in QueueCallers :
          LET found == FindQueued(commandQueue, qc[t].cmd.sensorId,
                                  qc[t].cmd.cmdType)
          IN  (/\ qc[t].pc = "check" /\ qc'[t].pc # "check"
               /\ Len(commandQueue) = MAX_QUEUED_COMMANDS) =>
                 IF found = 0
                 THEN /\ qc'[t] = [pc |-> "ret", result |-> FALSE]
                      /\ commandQueue' = commandQueue
                 ELSE /\ qc'[t] = [pc |-> "ret", result |-> TRUE]
                      /\ commandQueue'[found].queuedAt = now
                      /\ commandQueue'[found].retryCount = 0]_vars

\* C8: however the calls of queueCommand from the MQTT callback and from the
\* web handler interleave, the queue holds at most MAX_QUEUED_COMMANDS
\* entries, at most one per (target, type) pair, and no torn entry.
C8_QueueSafe ==
    /\ Len(commandQueue) <= MAX_QUEUED_COMMANDS
    /\ \A i, j \in 1..Len(commandQueue) :
          i # j => ~(/\ commandQueue[i].sensorId = commandQueue[j].sensorId
                     /\ commandQueue[i].cmdType = commandQueue[j].cmdType)
    /\ \A i \in 1..Len(commandQueue) : commandQueue[i] # TornEntry

(* ----------------------------- expiry (C4) ----------------------------- *)
\* the age of an entry is (now - queuedAt) in uint32_t; retryCommandsForSensor
\* passes its first statement, cleanExpiredCommands, when mqPc leaves "retry"

\* C4 as stated: in every call of retryCommandsForSensor, before anything is
\* transmitted, no command queued for 300 s or more is left in the queue,
\* whatever its target.
C4_ExpiredAtLimitRemoved ==
    [][(mqPc = "retry" /\ mqPc' # "retry") =>
          /\ snd'["mqtt"] = NoCall
          /\ \A k \in 1..Len(commandQueue') :
                ((now - commandQueue'[k].queuedAt) % MILLIS_WRAP) < COMMAND_EXPIRATION]_vars

\* C4 amended: in every call of retryCommandsForSensor, before anything is
\* transmitted, every command queued for more than 300 s is removed, whatever
\* its target, and every other command is kept; getQueuedCommandsJson then
\* lists exactly the kept commands of each target.
C4_ExpiredRemovedFirst ==
    [][(mqPc = "retry" /\ mqPc' # "retry") =>
          LET OverLimit(e) == ((now - e.queuedAt) % MILLIS_WRAP) > COMMAND_EXPIRATION
              ListedAfter(q) == [d \in CmdTargets |-> QueuedFor(q, d)]
          IN  /\ snd'["mqtt"] = NoCall
              /\ commandQueue' = SelectSeq(commandQueue, LAMBDA e : ~OverLimit(e))
              /\ \A k \in 1..Len(commandQueue') : ~OverLimit(commandQueue'[k])
              /\ ListedAfter(commandQueue') =
                    ListedAfter(SelectSeq(commandQueue, LAMBDA e : ~OverLimit(e)))]_vars

\* retryCommandsForSensor has removed a command queued for more than 300 s and
\* kept one queued for exactly 300 s; nothing is transmitted yet
C4_Witness ==
    /\ mqPc = "retryLoop" /\ mqI = 1
    /\ lastClean.removed > 0
    /\ \E k \in 1..Len(commandQueue) :
          ((now - commandQueue[k].queuedAt) % MILLIS_WRAP) = COMMAND_EXPIRATION
    /\ snd["mqtt"] = NoCall

=============================================================================
